---- MODULE Spec2Model ----
(***************************************************************************)
(* The multi-symbol price fan-out of backend/app/routers/ws.py:            *)
(* MultiSymbolConnectionManager, the /ws/prices handler and the shared     *)
(* pub/sub handle of backend/app/core/redis.py.                            *)
(*                                                                         *)
(* asyncio is cooperative: a task runs without interruption from one await *)
(* that suspends to the next.  Every action below is one such run of one   *)
(* task.  Code that runs between two suspensions is composed from          *)
(* operators that take the program state as a record and return the SET of *)
(* states the run can end in (set iteration order, the slice of a set and  *)
(* the outcome of bus I/O are the nondeterministic choices).               *)
(*                                                                         *)
(* Further down: MultiSymbolIngestor and run_multi_ingestor of             *)
(* backend/app/services/multi_ingestor.py, and LLMProviderManager of       *)
(* backend/app/services/llm/provider_manager.py, each with its own         *)
(* next-state relation and specifications.                                 *)
(***************************************************************************)
EXTENDS Integers, Sequences, FiniteSets, TLC

\* ------------------------------------------------------------------ bounds
\* settings.MAX_SYMBOLS_PER_CLIENT, scaled down so that three symbols exceed it
MAX_SYMBOLS_PER_CLIENT == 2
\* ticks the ingestor publishes in one run: the most, and in the runs of Spec
MaxTicks == 2
FewTicks == 1
\* text frames one client sends in one run: the most, and in the runs of Spec
MaxFrames == 2
FewFrames == 1
\* reader task objects per symbol that can be alive at once
ReaderSlots == 2
\* upstream connections the ingestor opens in one run
MaxSockets == 3
\* upstream frames the ingestor reads in one run
MaxUpFrames == 2
\* add_symbols / remove_symbols calls one caller makes in one run
MaxCalls == 2
\* settings.MAX_TOTAL_SYMBOLS, scaled down so that four symbols exceed it
MAX_TOTAL_SYMBOLS == 3
\* max_retries of run_multi_ingestor
max_retries == 5
\* LLMProviderManager.FAILURE_THRESHOLD
FAILURE_THRESHOLD == 3
\* LLMProviderManager.RECOVERY_TIMEOUT (five minutes), in units of base_delay:
\* longer than the 1 + 2 + 4 that three retries sleep
RECOVERY_TIMEOUT == 8
\* how far the clock runs
MaxClock == 10
\* max_retries a caller passes to complete_with_retry
MaxRetries == 3

\* ------------------------------------------------------------------ universe
AllClients == {"a", "b", "c"}
\* settings.DEFAULT_SYMBOLS
DEFAULT_SYMBOLS == {"BTCUSDT", "ETHUSDT", "BNBUSDT"}
Symbols == DEFAULT_SYMBOLS

H(c) == <<"h", c, 0>>
R(s, k) == <<"r", s, k>>
NoTask == <<"-", "-", 0>>
Handlers == {H(c) : c \in AllClients}
Readers == {R(s, k) : s \in Symbols, k \in 1..ReaderSlots}
TaskIds == Handlers \cup Readers

NoMsg == [sym |-> "-", n |-> 0]
NoReply == [type |-> "-", symbols |-> {}]
\* what the step just taken did that the rest of the state does not keep
NoEvent ==
    [type |-> "none", c |-> "-", frame |-> "none", acks |-> 0, reply |-> NoReply,
     req |-> {}, held |-> 0, msg |-> NoMsg, via |-> "-", touched |-> {},
     again |-> {}, err |-> "-"]
FrameKinds == {"subscribe", "unsubscribe", "ping", "unknown", "badjson",
               "nonobject", "badsymbols"}

\* dict helpers
Put(f, k, v) == [x \in (DOMAIN f) \cup {k} |-> IF x = k THEN v ELSE f[x]]
Del(f, k) == [x \in (DOMAIN f) \ {k} |-> f[x]]
EmptyDict == [x \in {} |-> {}]
Min(a, b) == IF a <= b THEN a ELSE b
Max(a, b) == IF a >= b THEN a ELSE b
RECURSIVE Without(_, _)
Without(q, t) ==
    IF q = <<>> THEN <<>>
    ELSE IF Head(q) = t THEN Without(Tail(q), t)
    ELSE <<Head(q)>> \o Without(Tail(q), t)

\* ------------------------------------------------------------------ state
VARIABLES
    client_subscriptions,   \* dict websocket -> set of symbols
    symbol_subscribers,     \* dict symbol -> set of websockets
    redis_tasks,            \* dict symbol -> reader task (its slot)
    lockHolder,             \* the task inside "async with self._lock"
    lockWaiters,            \* FIFO of tasks suspended in Lock.acquire
    tasks,                  \* every coroutine's position and locals
    alive,                  \* websocket -> transport still open
    busSubscribed,          \* channels the shared pubsub is subscribed to
    pubsubQueue,            \* messages the broker pushed to the shared pubsub
    received,               \* websocket -> price messages sent to it, in order
    published,              \* number of ticks published so far
    event,                  \* the reply, delivery or error of the last step
    env,                    \* the run's participants and the inputs they draw
    ingestor,               \* MultiSymbolIngestor: symbols, websocket, running
    upstream,               \* every upstream connection opened so far
    reconnectLock,          \* MultiSymbolIngestor._reconnect_lock
    itasks,                 \* run_multi_ingestor and the callers of the ingestor
    ingEvent,               \* what the ingestor's last step returned or published
    circuit_breakers,       \* LLMProviderManager._circuit_breakers
    providers,              \* provider -> calls made to it, failures in a row
    clock,                  \* datetime.now()
    requests,               \* every caller of complete / complete_with_retry
    llmEvent,               \* what the manager's last step called or returned
    llmEnv,                 \* the registered providers and the run's inputs
    alert_checker,          \* AlertChecker, its pubsub and the ticks it was sent
    notif                   \* NotificationConnectionManager and its callers

ingVars == <<ingestor, upstream, reconnectLock, itasks, ingEvent>>

llmVars == <<circuit_breakers, providers, clock, requests, llmEvent, llmEnv>>

auxVars == <<alert_checker, notif>>

wsVars == <<client_subscriptions, symbol_subscribers, redis_tasks, lockHolder,
            lockWaiters, tasks, alive, busSubscribed, pubsubQueue, received,
            published, event>>

vars == <<client_subscriptions, symbol_subscribers, redis_tasks, lockHolder,
          lockWaiters, tasks, alive, busSubscribed, pubsubQueue, received,
          published, event, env, ingestor, upstream, reconnectLock, itasks,
          ingEvent, circuit_breakers, providers, clock, requests, llmEvent,
          llmEnv, alert_checker, notif>>

IdleTask(pc) ==
    [pc |-> pc, kind |-> "-", w |-> "-", todo |-> {}, acc |-> {}, cur |-> "-",
     ret |-> "-", msg |-> NoMsg, visited |-> {}, used |-> 0, orphan |-> FALSE,
     failed |-> {}, frame |-> "none", acks |-> 0, reply |-> NoReply,
     req |-> {}, held |-> 0, nframes |-> 0, cancelled |-> FALSE]

St ==
    [cs |-> client_subscriptions, ss |-> symbol_subscribers, rt |-> redis_tasks,
     lh |-> lockHolder, lw |-> lockWaiters, tk |-> tasks, alive |-> alive,
     bus |-> busSubscribed, q |-> pubsubQueue, rcv |-> received,
     npub |-> published, ev |-> NoEvent, env |-> env]

Commit(st) ==
    /\ client_subscriptions' = st.cs
    /\ symbol_subscribers' = st.ss
    /\ redis_tasks' = st.rt
    /\ lockHolder' = st.lh
    /\ lockWaiters' = st.lw
    /\ tasks' = st.tk
    /\ alive' = st.alive
    /\ busSubscribed' = st.bus
    /\ pubsubQueue' = st.q
    /\ received' = st.rcv
    /\ published' = st.npub
    /\ event' = st.ev
    /\ env' = st.env
    /\ UNCHANGED <<ingVars, llmVars, auxVars>>

\* ------------------------------------------------------------------ manager
RECURSIVE Return(_, _, _), SendToClient(_, _, _, _), BeginOp(_, _, _, _, _, _),
          Acquire(_, _), Body(_, _), SubscribeBody(_, _), SubLoop(_, _),
          AddSubscriber(_, _, _), StartRedis(_, _, _), UnsubscribeBody(_, _),
          UnsubLoop(_, _), RemoveSubscriber(_, _, _), StopRedis(_, _, _),
          DelChannel(_, _, _), AfterRemove(_, _), DisconnectBody(_, _),
          DiscBodyLoop(_, _), DiscLoop(_, _), LoopCheck(_, _), IterNext(_, _),
          Raise(_, _, _)

\* the end of "async with self._lock": Lock.release
Release(st) == [st EXCEPT !.lh = NoTask]

\* the locals of a finished manager call are dead
ClearOp(st, t) ==
    [st EXCEPT !.tk[t].kind = "-", !.tk[t].w = "-", !.tk[t].todo = {},
               !.tk[t].acc = {}, !.tk[t].cur = "-", !.tk[t].ret = "-"]

\* get_client_subscriptions
GetClientSubscriptions(st, w) ==
    IF w \in DOMAIN st.cs THEN st.cs[w] ELSE {}

\* the handler is through with a frame (or with the connect): it suspends in
\* receive_text, or returns.  What it replied is the step's event.
FrameDone(st, t, pc) ==
    LET k == st.tk[t] IN
    [st EXCEPT !.tk[t] = [IdleTask(pc) EXCEPT !.nframes = k.nframes],
               !.ev.type = "reply", !.ev.c = t[2], !.ev.frame = k.frame,
               !.ev.acks = k.acks, !.ev.reply = k.reply, !.ev.req = k.req,
               !.ev.held = k.held]

\* a manager call returns `result` to its caller, which runs on
Return(st, t, result) ==
    LET r == st.tk[t].ret
        s1 == ClearOp(st, t)
    IN  CASE r = "ackConnect" ->
               SendToClient(s1, t, "subscribed", GetClientSubscriptions(s1, t[2]))
          [] r = "ackSub" -> SendToClient(s1, t, "subscribed", result)
          [] r = "ackUnsub" -> SendToClient(s1, t, "unsubscribed", result)
          [] r = "recv" -> {FrameDone(s1, t, "recv")}
          [] r = "done" -> {FrameDone(s1, t, "done")}
          [] r = "reader" -> DiscLoop(s1, t)

\* an exception leaves the manager call: "async with" releases the lock; the
\* handler's finally disconnects (or the handler dies in it), the reader's
\* loop logs and sleeps
Raise(st, t, err) ==
    LET s1 == ClearOp([st EXCEPT !.lh = IF @ = t THEN NoTask ELSE @,
                                 !.ev.err = err], t)
    IN  IF t \in Readers THEN {[s1 EXCEPT !.tk[t] = IdleTask("sleep")]}
        ELSE IF st.tk[t].ret = "done" THEN {FrameDone(s1, t, "done")}
        ELSE BeginOp(s1, t, "disc", t[2], {}, "done")

\* send_to_client: send_json, and disconnect when it raises
SendToClient(st, t, type, syms) ==
    IF st.alive[t[2]]
    THEN {FrameDone([st EXCEPT !.tk[t].acks = @ + 1,
                               !.tk[t].reply = [type |-> type, symbols |-> syms]],
                    t, "recv")}
    ELSE BeginOp(st, t, "disc", t[2], {}, "recv")

\* a call of subscribe / unsubscribe / disconnect up to its lock
BeginOp(st, t, kind, w, syms, ret) ==
    Acquire([st EXCEPT !.tk[t].kind = kind, !.tk[t].w = w, !.tk[t].todo = syms,
                       !.tk[t].acc = {}, !.tk[t].cur = "-", !.tk[t].ret = ret], t)

\* asyncio.Lock.acquire: immediate only when unlocked with nobody queued
Acquire(st, t) ==
    IF st.lh = NoTask /\ st.lw = <<>>
    THEN Body([st EXCEPT !.lh = t], t)
    ELSE {[st EXCEPT !.lw = Append(@, t), !.tk[t].pc = "lock"]}

Body(st, t) ==
    CASE st.tk[t].kind = "sub" -> SubscribeBody(st, t)
      [] st.tk[t].kind = "unsub" -> UnsubscribeBody(st, t)
      [] st.tk[t].kind = "disc" -> DisconnectBody(st, t)

\* a slice that forgets what the client already holds
SliceLenFromCap(n, available) == Min(n, MAX_SYMBOLS_PER_CLIENT)

\* len(list(symbols)[:available])
SliceLen(n, available) ==
    IF available >= 0 THEN Min(n, available) ELSE Max(n + available, 0)

\* a subscribe that does not clip the request
SymbolsToAddUnclipped(symbols, current) == {symbols}

\* set(list(symbols)[:available]): any subset of that size (set order)
SymbolsToAdd(symbols, current) ==
    {A \in SUBSET symbols :
        Cardinality(A) =
            SliceLen(Cardinality(symbols), MAX_SYMBOLS_PER_CLIENT - current)}

SubscribeBody(st, t) ==
    LET w == st.tk[t].w IN
    IF w \notin DOMAIN st.cs THEN Return(Release(st), t, {})
    ELSE UNION {SubLoop([st EXCEPT !.tk[t].todo = A, !.tk[t].acc = A,
                                   !.tk[t].held = Cardinality(st.cs[w])], t) :
                    A \in SymbolsToAdd(st.tk[t].todo, Cardinality(st.cs[w]))}

\* for symbol in symbols_to_add: await self._add_subscriber(websocket, symbol)
SubLoop(st, t) ==
    IF st.tk[t].todo = {} THEN Return(Release(st), t, st.tk[t].acc)
    ELSE UNION {AddSubscriber([st EXCEPT !.tk[t].todo = @ \ {s}], t, s) :
                    s \in st.tk[t].todo}

AddSubscriber(st, t, s) ==
    LET w == st.tk[t].w
        old == IF s \in DOMAIN st.ss THEN st.ss[s] ELSE {}
        s1 == [st EXCEPT !.cs = Put(@, w, st.cs[w] \cup {s}),
                         !.ss = Put(@, s, old \cup {w})]
    IN  IF w \notin DOMAIN st.cs THEN Raise(st, t, "KeyError")
        ELSE IF Cardinality(s1.ss[s]) = 1 THEN StartRedis(s1, t, s)
        ELSE SubLoop(s1, t)

\* _start_redis_subscription up to "await pubsub.subscribe(channel)"
StartRedis(st, t, s) ==
    IF s \in DOMAIN st.rt THEN SubLoop(st, t)
    ELSE {[st EXCEPT !.tk[t].pc = "start", !.tk[t].cur = s]}

UnsubscribeBody(st, t) ==
    IF st.tk[t].w \notin DOMAIN st.cs THEN Return(Release(st), t, {})
    ELSE UnsubLoop(st, t)

\* for symbol in symbols: if symbol in client_subscriptions[websocket]: ...
UnsubLoop(st, t) ==
    IF st.tk[t].todo = {} THEN Return(Release(st), t, st.tk[t].acc)
    ELSE IF st.tk[t].w \notin DOMAIN st.cs THEN Raise(st, t, "KeyError")
    ELSE UNION {
        IF s \in st.cs[st.tk[t].w]
        THEN RemoveSubscriber([st EXCEPT !.tk[t].todo = @ \ {s},
                                         !.tk[t].acc = @ \cup {s}], t, s)
        ELSE UnsubLoop([st EXCEPT !.tk[t].todo = @ \ {s}], t)
        : s \in st.tk[t].todo}

\* a removal that leaves the client's own set as it was
RemoveSubscriberOneSided(st, t, s) ==
    LET w == st.tk[t].w
        s1 == [st EXCEPT !.ev.touched = @ \cup {w}]
    IN  IF s \in DOMAIN s1.ss
        THEN LET s2 == [s1 EXCEPT !.ss = Put(@, s, st.ss[s] \ {w})]
             IN  IF s2.ss[s] = {} THEN StopRedis(s2, t, s) ELSE AfterRemove(s2, t)
        ELSE AfterRemove(s1, t)

\* a removal that stops the reader whoever is still subscribed
RemoveSubscriberAlwaysStop(st, t, s) ==
    LET w == st.tk[t].w
        s0 == [st EXCEPT !.ev.touched = @ \cup {w}]
        s1 == IF w \in DOMAIN st.cs
              THEN [s0 EXCEPT !.cs = Put(@, w, st.cs[w] \ {s})] ELSE s0
    IN  IF s \in DOMAIN s1.ss
        THEN StopRedis([s1 EXCEPT !.ss = Put(@, s, st.ss[s] \ {w})], t, s)
        ELSE AfterRemove(s1, t)

RemoveSubscriber(st, t, s) ==
    LET w == st.tk[t].w
        s0 == [st EXCEPT !.ev.touched = @ \cup {w}]
        s1 == IF w \in DOMAIN st.cs
              THEN [s0 EXCEPT !.cs = Put(@, w, st.cs[w] \ {s})] ELSE s0
    IN  IF s \in DOMAIN s1.ss
        THEN LET s2 == [s1 EXCEPT !.ss = Put(@, s, st.ss[s] \ {w})]
             IN  IF s2.ss[s] = {} THEN StopRedis(s2, t, s) ELSE AfterRemove(s2, t)
        ELSE AfterRemove(s1, t)

\* a cancellation that leaves the reader queued on the lock it waited for
KillKeepsWaiter(st, r) ==
    [st EXCEPT !.tk[r] = IdleTask("none")]

\* Task.cancel() on a suspended reader: CancelledError is thrown at its await
\* (get_message, send_json, Lock.acquire or sleep) and ends the task
Kill(st, r) ==
    [st EXCEPT !.tk[r] = IdleTask("none"), !.lw = Without(@, r)]

\* _stop_redis_subscription up to its awaits (await task; pubsub.unsubscribe).
\* A reader that stops its own symbol cancels itself: the CancelledError is
\* raised at "await task", swallowed there, and the task runs on.
StopRedis(st, t, s) ==
    IF s \notin DOMAIN st.rt THEN DelChannel(st, t, s)
    ELSE LET r == R(s, st.rt[s])
             s1 == [st EXCEPT !.rt = Del(@, s),
                              !.ev.err = IF st.tk[r].cancelled
                                         THEN "cancelled twice" ELSE @]
             s2 == IF r = t THEN [s1 EXCEPT !.tk[t].cancelled = TRUE]
                   ELSE Kill(s1, r)
         IN  {[s2 EXCEPT !.tk[t].pc = "stop", !.tk[t].cur = s]}

\* the readers of symbol s that are suspended inside an iteration over the set
\* object symbol_subscribers[s], slots k and below
RECURSIVE MarkOrphans(_, _, _)
MarkOrphans(st, s, k) ==
    IF k = 0 THEN st
    ELSE MarkOrphans(IF st.tk[R(s, k)].pc = "send"
                     THEN [st EXCEPT !.tk[R(s, k)].orphan = TRUE] ELSE st,
                     s, k - 1)

\* del self.symbol_subscribers[symbol]: an iterator over the deleted set
\* object now sees a set of size 0
DelChannel(st, t, s) ==
    IF s \notin DOMAIN st.ss THEN Raise(st, t, "KeyError") ELSE
    AfterRemove(MarkOrphans([st EXCEPT !.ss = Del(@, s)], s, ReaderSlots), t)

AfterRemove(st, t) ==
    IF st.tk[t].kind = "unsub" THEN UnsubLoop(st, t) ELSE DiscBodyLoop(st, t)

\* a websocket that was registered and is no longer: a disconnect completed
Disconnected(st, w) ==
    w \notin DOMAIN st.cs /\ st.tk[H(w)].pc \notin {"off", "new"}

\* a disconnect without "if websocket not in self.client_subscriptions"
DisconnectBodyUnguarded(st, t) ==
    LET w == st.tk[t].w
        s0 == IF Disconnected(st, w) THEN [st EXCEPT !.ev.again = @ \cup {w}]
              ELSE st
    IN  DiscBodyLoop([s0 EXCEPT !.tk[t].todo = GetClientSubscriptions(s0, w)], t)

DisconnectBody(st, t) ==
    LET w == st.tk[t].w
        s0 == IF Disconnected(st, w) THEN [st EXCEPT !.ev.again = @ \cup {w}]
              ELSE st
    IN  IF w \notin DOMAIN st.cs THEN Return(Release(s0), t, {})
        ELSE DiscBodyLoop([s0 EXCEPT !.tk[t].todo = s0.cs[w]], t)

\* for symbol in subscribed_symbols: await self._remove_subscriber(...)
\* and then del self.client_subscriptions[websocket]
DiscBodyLoop(st, t) ==
    IF st.tk[t].todo = {}
    THEN IF st.tk[t].w \notin DOMAIN st.cs THEN Raise(st, t, "KeyError")
         ELSE Return(Release([st EXCEPT !.cs = Del(@, st.tk[t].w),
                                        !.ev.touched = @ \cup {st.tk[t].w}]),
                     t, {})
    ELSE UNION {RemoveSubscriber([st EXCEPT !.tk[t].todo = @ \ {s}], t, s) :
                    s \in st.tk[t].todo}

\* ------------------------------------------------------------------ reader
\* the iterator of "for websocket in self.symbol_subscribers[symbol]" is dead
ClearIter(st, t) ==
    [st EXCEPT !.tk[t].visited = {}, !.tk[t].used = 0, !.tk[t].orphan = FALSE,
               !.tk[t].msg = NoMsg]

\* the reader suspends (or ends) with no locals but the cancellation it swallowed
ReaderAt(st, t, pc) ==
    [st EXCEPT !.tk[t] = IF pc = "none" THEN IdleTask(pc)
                         ELSE [IdleTask(pc) EXCEPT
                                 !.cancelled = st.tk[t].cancelled]]

\* "while symbol in self.redis_tasks": poll again, or the task returns
LoopCheck(st, t) ==
    IF t[2] \in DOMAIN st.rt THEN {ReaderAt(st, t, "poll")}
    ELSE {ReaderAt(st, t, "none")}

\* for websocket in disconnected: await self.disconnect(websocket)
DiscLoop(st, t) ==
    IF st.tk[t].failed = {} THEN LoopCheck(st, t)
    ELSE UNION {BeginOp([st EXCEPT !.tk[t].failed = @ \ {c}], t, "disc", c, {},
                        "reader") : c \in st.tk[t].failed}

\* await websocket.send_json(message) inside the loop of broadcast_to_symbol
Send(st, t, c) ==
    LET s1 == IF st.alive[c]
              THEN [st EXCEPT !.rcv[c] = Append(@, st.tk[t].msg)]
              ELSE [st EXCEPT !.tk[t].failed = @ \cup {c}]
    IN  [s1 EXCEPT !.tk[t].visited = @ \cup {c}, !.tk[t].pc = "send",
                   !.ev.type = "price", !.ev.c = c, !.ev.msg = st.tk[t].msg,
                   !.ev.via = t[2]]

\* one step of the set iterator: RuntimeError when the set changed size (the
\* loop of _redis_message_loop catches it and sleeps), else the next element
IterNext(st, t) ==
    LET tk == st.tk[t]
        now == IF tk.orphan THEN {} ELSE st.ss[t[2]]
        cands == now \ tk.visited
    IN  IF tk.used # Cardinality(now)
        THEN {ReaderAt([st EXCEPT !.ev.err = "RuntimeError"], t, "sleep")}
        ELSE IF cands = {} THEN DiscLoop(ClearIter(st, t), t)
        ELSE {Send(st, t, c) : c \in cands}

\* broadcast_to_symbol(symbol, data): symbol is the reader's own symbol
BroadcastToSymbol(st, t, m) ==
    IF t[2] \notin DOMAIN st.ss THEN LoopCheck(st, t)
    ELSE IterNext([st EXCEPT !.tk[t].msg = m, !.tk[t].visited = {},
                             !.tk[t].used = Cardinality(st.ss[t[2]]),
                             !.tk[t].orphan = FALSE, !.tk[t].failed = {}], t)

\* ------------------------------------------------------------------ actions
\* websocket_prices up to its first receive: accept, register, subscribe
Accept(c) ==
    /\ tasks[H(c)].pc = "new"
    /\ IF ~alive[c]
       THEN Commit([St EXCEPT !.tk[H(c)].pc = "done"])
       ELSE \E init \in env.initial[c] :
              LET symbols == IF init = {} THEN DEFAULT_SYMBOLS ELSE init IN
              \E s2 \in BeginOp(
                     [St EXCEPT !.cs = Put(@, c, {}),
                                !.tk[H(c)].frame = "connect",
                                !.tk[H(c)].req = symbols],
                     H(c), "sub", c, symbols, "ackConnect") : Commit(s2)

\* _handle_client_message and the json.loads around it
HandleFrame(st, t, f) ==
    CASE f.kind = "subscribe" -> BeginOp(st, t, "sub", t[2], f.symbols, "ackSub")
      [] f.kind = "unsubscribe" ->
           BeginOp(st, t, "unsub", t[2], f.symbols, "ackUnsub")
      [] f.kind = "ping" -> SendToClient(st, t, "pong", {})
      [] f.kind = "badsymbols" -> SendToClient(st, t, "error", {})
      [] f.kind = "badjson" -> SendToClient(st, t, "error", {})
      [] f.kind = "unknown" -> {FrameDone(st, t, "recv")}
      \* message.get raises AttributeError: except Exception, finally disconnect
      [] f.kind = "nonobject" -> BeginOp(st, t, "disc", t[2], {}, "done")

Frames ==
    {[kind |-> k, symbols |-> S] :
        k \in env.frames \cap {"subscribe", "unsubscribe"}, S \in env.reqs}
    \cup {[kind |-> k, symbols |-> {}] :
        k \in env.frames \ {"subscribe", "unsubscribe"}}

\* a receive loop whose end skips the "finally: await manager.disconnect"
RecvNoFinally(c) ==
    /\ tasks[H(c)].pc = "recv"
    /\ IF ~alive[c]
       THEN Commit(FrameDone([St EXCEPT !.tk[H(c)].frame = "closed"], H(c),
                             "done"))
       ELSE /\ tasks[H(c)].nframes < Min(env.nframes[c], MaxFrames)
            /\ \E f \in Frames :
                 \E s2 \in HandleFrame(
                        [St EXCEPT !.tk[H(c)].frame = f.kind,
                                   !.tk[H(c)].req = f.symbols,
                                   !.tk[H(c)].nframes = @ + 1], H(c), f) :
                    Commit(s2)

\* one turn of the receive loop of websocket_prices
Recv(c) ==
    /\ tasks[H(c)].pc = "recv"
    /\ IF ~alive[c]
       THEN \E s2 \in BeginOp([St EXCEPT !.tk[H(c)].frame = "closed"],
                              H(c), "disc", c, {}, "done") : Commit(s2)
       ELSE /\ tasks[H(c)].nframes < Min(env.nframes[c], MaxFrames)
            /\ \E f \in Frames :
                 \E s2 \in HandleFrame(
                        [St EXCEPT !.tk[H(c)].frame = f.kind,
                                   !.tk[H(c)].req = f.symbols,
                                   !.tk[H(c)].nframes = @ + 1], H(c), f) :
                    Commit(s2)

\* Lock.release woke the first waiter: it takes the lock and runs its call
LockGranted(t) ==
    /\ tasks[t].pc = "lock"
    /\ lockHolder = NoTask
    /\ lockWaiters # <<>> /\ Head(lockWaiters) = t
    /\ \E s2 \in Body([St EXCEPT !.lh = t, !.lw = Tail(@)], t) : Commit(s2)

FreeSlots(st, s) == {k \in 1..ReaderSlots : st.tk[R(s, k)].pc = "none"}

\* the rest of _start_redis_subscription: the channel is subscribed and the
\* reader task created, or the bus raised and the exception is logged
StartDone(t) ==
    /\ tasks[t].pc = "start"
    /\ LET s == tasks[t].cur
           s0 == [St EXCEPT !.tk[t].cur = "-"]
       IN  \/ /\ FreeSlots(St, s) # {}
              /\ LET k == CHOOSE x \in FreeSlots(St, s) :
                            \A y \in FreeSlots(St, s) : x <= y
                 IN  \E s2 \in SubLoop(
                            [s0 EXCEPT !.bus = @ \cup {s},
                                       !.tk[R(s, k)] = IdleTask("poll"),
                                       !.rt = Put(@, s, k)], t) : Commit(s2)
           \/ \E s2 \in SubLoop(s0, t) : Commit(s2)

\* the rest of _stop_redis_subscription, then del symbol_subscribers[symbol]
StopDone(t) ==
    /\ tasks[t].pc = "stop"
    /\ LET s == tasks[t].cur
           s0 == [St EXCEPT !.tk[t].cur = "-"]
       IN  \/ \E s2 \in DelChannel([s0 EXCEPT !.bus = @ \ {s}], t, s) : Commit(s2)
           \/ \E s2 \in DelChannel(s0, t, s) : Commit(s2)

\* pubsub.get_message on the shared handle returns to one polling reader
Poll(r) ==
    /\ tasks[r].pc = "poll"
    /\ \/ /\ pubsubQueue # <<>>
          /\ \E s2 \in BroadcastToSymbol([St EXCEPT !.q = Tail(@)], r,
                                         Head(pubsubQueue)) : Commit(s2)
       \/ /\ r[2] \notin DOMAIN redis_tasks
          /\ \E s2 \in LoopCheck(St, r) : Commit(s2)

SendDone(r) ==
    /\ tasks[r].pc = "send"
    /\ \E s2 \in IterNext(St, r) : Commit(s2)

SleepDone(r) ==
    /\ tasks[r].pc = "sleep"
    /\ \E s2 \in LoopCheck(St, r) : Commit(s2)

\* the ingestor publishes a tick on channel(s)
Publish(s) ==
    /\ published < Min(env.ticks, MaxTicks)
    /\ s \in busSubscribed
    /\ Commit([St EXCEPT !.npub = @ + 1,
                         !.q = Append(@, [sym |-> s, n |-> published + 1])])

\* the transport of a client goes down
Drop(c) ==
    /\ tasks[H(c)].pc \notin {"off", "done"}
    /\ alive[c]
    /\ Commit([St EXCEPT !.alive[c] = FALSE])

Next ==
    \/ \E c \in AllClients : Accept(c)
    \/ \E c \in AllClients : Recv(c)
    \/ \E t \in TaskIds : LockGranted(t)
    \/ \E t \in TaskIds : StartDone(t)
    \/ \E t \in TaskIds : StopDone(t)
    \/ \E r \in Readers : Poll(r)
    \/ \E r \in Readers : SendDone(r)
    \/ \E r \in Readers : SleepDone(r)
    \/ \E s \in Symbols : Publish(s)
    \/ \E c \in AllClients : Drop(c)

\* ------------------------------------------------------------------ ingestor
\* backend/app/services/multi_ingestor.py: one MultiSymbolIngestor, the task of
\* run_multi_ingestor that main.py creates, and callers of add_symbols /
\* remove_symbols.  Every action is one run of one task between two awaits.
IngSymbols == Symbols \cup {"SOLUSDT"}
RUN == "run"
Callers == {"x", "y"}
IngTasks == {RUN} \cup Callers

IdleIng ==
    [pc |-> "idle", op |-> "-", req |-> {}, before |-> {}, streams |-> {},
     cause |-> "-", attempt |-> 0, sock |-> 0, n |-> 0, frame |-> "-"]
NoIngEvent ==
    [type |-> "none", task |-> "-", op |-> "-", req |-> {}, before |-> {},
     result |-> {}, sym |-> "-", sock |-> 0, was |-> FALSE]
FreeLock == [holder |-> "-", waiters |-> <<>>]

\* MultiSymbolIngestor.__init__: symbols or set(settings.DEFAULT_SYMBOLS)
NewIngestor(initial) ==
    [symbols |-> IF initial = {} THEN DEFAULT_SYMBOLS ELSE initial,
     websocket |-> 0, running |-> FALSE]

\* websocket.close(): the connection (if any) is closed from now on
CloseSocket(up, k) == IF k = 0 THEN up ELSE [up EXCEPT ![k].state = "closed"]

\* websockets.connect(url) returned a new connection streaming `streams`
OpenSocket(up, streams) == Append(up, [state |-> "open", streams |-> streams])

IngUnchanged == UNCHANGED <<wsVars, env, llmVars, auxVars>>

\* stop(): running = False, and close the current websocket if there is one
RunStop(me, cause) ==
    /\ ingestor' = [ingestor EXCEPT !.running = FALSE]
    /\ upstream' = CloseSocket(upstream, ingestor.websocket)
    /\ itasks' = [itasks EXCEPT ![RUN] =
                    [me EXCEPT !.cause = IF @ = "-" THEN cause ELSE @,
                               !.frame = "-", !.streams = {},
                               !.pc = IF ingestor.websocket = 0 THEN "done"
                                      ELSE "stop_close"]]

\* run_multi_ingestor enters start(): the guards, then await connect_redis()
RunStart ==
    /\ itasks[RUN].pc = "idle"
    /\ env.runner
    /\ itasks[RUN].attempt < max_retries
    /\ itasks' = [itasks EXCEPT ![RUN].attempt = @ + 1,
                                ![RUN].pc = IF ingestor.running \/ ingestor.symbols = {}
                                            THEN "done" ELSE "connect_redis"]
    /\ ingEvent' = NoIngEvent
    /\ UNCHANGED <<ingestor, upstream, reconnectLock>>
    /\ IngUnchanged

\* get_redis_client returned or raised; _build_stream_url; websockets.connect
RedisDone ==
    /\ itasks[RUN].pc = "connect_redis"
    /\ \/ IF ingestor.symbols = {}
          THEN RunStop(itasks[RUN], "ValueError")
          ELSE /\ itasks' = [itasks EXCEPT ![RUN].pc = "connect_binance",
                                           ![RUN].streams = ingestor.symbols]
               /\ UNCHANGED <<ingestor, upstream>>
       \/ RunStop(itasks[RUN], "redis")
    /\ ingEvent' = NoIngEvent
    /\ UNCHANGED reconnectLock
    /\ IngUnchanged

\* websockets.connect returned (running = True, the read loop starts on that
\* connection) or raised
BinanceDone ==
    /\ itasks[RUN].pc = "connect_binance"
    /\ \/ /\ Len(upstream) < MaxSockets
          /\ upstream' = OpenSocket(upstream, itasks[RUN].streams)
          /\ ingestor' = [ingestor EXCEPT !.websocket = Len(upstream) + 1,
                                          !.running = TRUE]
          /\ itasks' = [itasks EXCEPT ![RUN].pc = "recv", ![RUN].streams = {},
                                      ![RUN].sock = Len(upstream) + 1]
       \/ RunStop(itasks[RUN], "connect")
    /\ ingEvent' = NoIngEvent
    /\ UNCHANGED reconnectLock
    /\ IngUnchanged

UpFrames(k) == upstream[k].streams \cup {"bad"}

\* "async for message in self.websocket" yields a frame: if not self.running:
\* break, else parse and publish
RecvFrame ==
    /\ itasks[RUN].pc = "recv"
    /\ upstream[itasks[RUN].sock].state = "open"
    /\ itasks[RUN].n < Min(env.upframes, MaxUpFrames)
    /\ \E f \in UpFrames(itasks[RUN].sock) :
         IF ~ingestor.running
         THEN RunStop([itasks[RUN] EXCEPT !.n = @ + 1], "flag")
         ELSE /\ itasks' = [itasks EXCEPT ![RUN].pc = "publish",
                                          ![RUN].frame = f, ![RUN].n = @ + 1]
              /\ UNCHANGED <<ingestor, upstream>>
    /\ ingEvent' = NoIngEvent
    /\ UNCHANGED reconnectLock
    /\ IngUnchanged

\* the iterated connection is closed: the loop ends or ConnectionClosed is
\* raised and caught; finally stop()
RecvEnd ==
    /\ itasks[RUN].pc = "recv"
    /\ upstream[itasks[RUN].sock].state = "closed"
    /\ RunStop(itasks[RUN], "closed")
    /\ ingEvent' = NoIngEvent
    /\ UNCHANGED reconnectLock
    /\ IngUnchanged

\* the channels of the bus: a prefix and a symbol, or a name alone
REDIS_CHANNEL == <<"live_prices">>

\* publish_to_redis of multi_ingestor.py: f"{prefix}:{symbol}", f"{prefix}:all"
\* with the prefix "prices"
PublishChannels(symbol) == <<(<<"prices", symbol>>), (<<"prices", "all">>)>>

\* the bus hands a message published on `channels` to the alert checker's
\* pubsub once for every one of them it is subscribed to
Deliver(ac, channels, symbol, price) ==
    LET hits == SelectSeq(channels, LAMBDA ch : ch \in ac.subscribed) IN
    [ac EXCEPT !.queue = @ \o [i \in 1..Len(hits) |->
                                 [channel |-> hits[i], symbol |-> symbol,
                                  price |-> price]]]

\* a loop in which a frame that cannot be handled stops the ingestor
PublishDoneBreak ==
    /\ itasks[RUN].pc = "publish"
    /\ \/ /\ itasks[RUN].frame # "bad"
          /\ ingEvent' = [NoIngEvent EXCEPT !.type = "publish",
                                            !.sym = itasks[RUN].frame,
                                            !.sock = itasks[RUN].sock]
          /\ alert_checker' = Deliver(alert_checker,
                                      PublishChannels(itasks[RUN].frame),
                                      itasks[RUN].frame, itasks[RUN].n)
          /\ itasks' = [itasks EXCEPT ![RUN].pc = "recv", ![RUN].frame = "-"]
          /\ UNCHANGED <<ingestor, upstream>>
       \/ /\ ingEvent' = [NoIngEvent EXCEPT !.type = "skipped",
                                            !.sym = itasks[RUN].frame,
                                            !.sock = itasks[RUN].sock]
          /\ UNCHANGED alert_checker
          /\ RunStop(itasks[RUN], "frame")
    /\ UNCHANGED <<reconnectLock, notif, wsVars, env, llmVars>>

\* parse_combined_stream_data and publish_to_redis for one frame: published on
\* the channel of the frame's symbol, or an exception logged; the loop goes on
PublishDone ==
    /\ itasks[RUN].pc = "publish"
    /\ \/ /\ itasks[RUN].frame # "bad"
          /\ ingEvent' = [NoIngEvent EXCEPT !.type = "publish",
                                            !.sym = itasks[RUN].frame,
                                            !.sock = itasks[RUN].sock]
          /\ alert_checker' = Deliver(alert_checker,
                                      PublishChannels(itasks[RUN].frame),
                                      itasks[RUN].frame, itasks[RUN].n)
       \/ /\ ingEvent' = [NoIngEvent EXCEPT !.type = "skipped",
                                            !.sym = itasks[RUN].frame,
                                            !.sock = itasks[RUN].sock]
          /\ UNCHANGED alert_checker
    /\ itasks' = [itasks EXCEPT ![RUN].pc = "recv", ![RUN].frame = "-"]
    /\ UNCHANGED <<ingestor, upstream, reconnectLock>>
    /\ UNCHANGED <<notif, wsVars, env, llmVars>>

\* the awaited websocket.close() of stop() returned: start() returns, and
\* run_multi_ingestor breaks out of its retry loop
StopCloseDone ==
    /\ itasks[RUN].pc = "stop_close"
    /\ itasks' = [itasks EXCEPT ![RUN].pc = "done"]
    /\ ingEvent' = NoIngEvent
    /\ UNCHANGED <<ingestor, upstream, reconnectLock>>
    /\ IngUnchanged

\* the exchange (or the network) ends an upstream connection
Lost(k) ==
    /\ k \in 1..Len(upstream)
    /\ upstream[k].state = "open"
    /\ upstream' = [upstream EXCEPT ![k].state = "closed"]
    /\ itasks' = [itasks EXCEPT ![RUN].cause =
                    IF itasks[RUN].sock = k /\ @ = "-" THEN "lost" ELSE @]
    /\ ingEvent' = NoIngEvent
    /\ UNCHANGED <<ingestor, reconnectLock>>
    /\ IngUnchanged

\* add_symbols / remove_symbols return self.symbols; "async with" releases
IngReturn(t, me, ing, waiters) ==
    /\ ingestor' = ing
    /\ itasks' = [itasks EXCEPT ![t] = [IdleIng EXCEPT !.n = me.n]]
    /\ reconnectLock' = [holder |-> "-", waiters |-> waiters]
    /\ ingEvent' = [NoIngEvent EXCEPT !.type = "return", !.task = t,
                                      !.op = me.op, !.req = me.req,
                                      !.before = me.before,
                                      !.result = ing.symbols,
                                      !.was = me.sock # 0]

\* the caller suspends in an await with the lock held
IngHold(t, me, ing, waiters, pc) ==
    /\ ingestor' = ing
    /\ itasks' = [itasks EXCEPT ![t] = [me EXCEPT !.pc = pc]]
    /\ reconnectLock' = [holder |-> t, waiters |-> waiters]
    /\ ingEvent' = NoIngEvent

\* an add_symbols that takes new symbols only while the total stays in the cap
AddSymbolsClipped(t, me, waiters) ==
    LET new_symbols == me.req \ ingestor.symbols
        room == Max(MAX_TOTAL_SYMBOLS - Cardinality(ingestor.symbols), 0)
        kept == CHOOSE A \in SUBSET new_symbols :
                    Cardinality(A) = Min(room, Cardinality(new_symbols))
        ing == [ingestor EXCEPT !.symbols = @ \cup kept]
    IN  IF kept = {}
        THEN IngReturn(t, me, ingestor, waiters) /\ UNCHANGED upstream
        ELSE IF ingestor.running /\ ingestor.websocket # 0
        THEN /\ IngHold(t, me, ing, waiters, "close")
             /\ upstream' = CloseSocket(upstream, ingestor.websocket)
        ELSE IngReturn(t, me, ing, waiters) /\ UNCHANGED upstream

\* the body of add_symbols under the lock, up to its first await
AddSymbols(t, me, waiters) ==
    LET new_symbols == me.req \ ingestor.symbols
        ing == [ingestor EXCEPT !.symbols = @ \cup new_symbols]
    IN  IF new_symbols = {}
        THEN IngReturn(t, me, ingestor, waiters) /\ UNCHANGED upstream
        ELSE IF ingestor.running /\ ingestor.websocket # 0
        THEN /\ IngHold(t, me, ing, waiters, "close")
             /\ upstream' = CloseSocket(upstream, ingestor.websocket)
        ELSE IngReturn(t, me, ing, waiters) /\ UNCHANGED upstream

\* a remove_symbols that never stops the ingestor
RemoveSymbolsNoStop(t, me, waiters) ==
    LET removed == me.req \cap ingestor.symbols
        ing == [ingestor EXCEPT !.symbols = @ \ removed]
    IN  IF removed = {}
        THEN IngReturn(t, me, ingestor, waiters) /\ UNCHANGED upstream
        ELSE IF ingestor.running /\ ingestor.websocket # 0 /\ ing.symbols # {}
        THEN /\ IngHold(t, me, ing, waiters, "close")
             /\ upstream' = CloseSocket(upstream, ingestor.websocket)
        ELSE IngReturn(t, me, ing, waiters) /\ UNCHANGED upstream

\* the body of remove_symbols under the lock, up to its first await
RemoveSymbols(t, me, waiters) ==
    LET removed == me.req \cap ingestor.symbols
        ing == [ingestor EXCEPT !.symbols = @ \ removed]
    IN  IF removed = {}
        THEN IngReturn(t, me, ingestor, waiters) /\ UNCHANGED upstream
        ELSE IF ingestor.running /\ ingestor.websocket # 0 /\ ing.symbols # {}
        THEN /\ IngHold(t, me, ing, waiters, "close")
             /\ upstream' = CloseSocket(upstream, ingestor.websocket)
        ELSE IF ing.symbols = {}
        THEN IF ingestor.websocket # 0
             THEN /\ IngHold(t, me, [ing EXCEPT !.running = FALSE], waiters,
                             "stop_close")
                  /\ upstream' = CloseSocket(upstream, ingestor.websocket)
             ELSE /\ IngReturn(t, me, [ing EXCEPT !.running = FALSE], waiters)
                  /\ UNCHANGED upstream
        ELSE IngReturn(t, me, ing, waiters) /\ UNCHANGED upstream

\* "async with self._reconnect_lock" entered
IngBody(t, me, waiters) ==
    LET m2 == [me EXCEPT !.before = ingestor.symbols,
                         !.sock = IF ingestor.running THEN ingestor.websocket
                                  ELSE 0]
    IN  IF me.op = "add" THEN AddSymbols(t, m2, waiters)
        ELSE RemoveSymbols(t, m2, waiters)

\* callers that do not take _reconnect_lock
CallUnlocked(t) ==
    /\ itasks[t].pc = "idle"
    /\ t \in env.callers
    /\ itasks[t].n < Min(env.ncalls, MaxCalls)
    /\ \E op \in env.ops, req \in env.ireqs :
         IngBody(t, [itasks[t] EXCEPT !.op = op, !.req = req, !.n = @ + 1],
                 reconnectLock.waiters)
    /\ IngUnchanged

\* a caller calls add_symbols(req) or remove_symbols(req)
Call(t) ==
    /\ itasks[t].pc = "idle"
    /\ t \in env.callers
    /\ itasks[t].n < Min(env.ncalls, MaxCalls)
    /\ \E op \in env.ops, req \in env.ireqs :
         LET me == [itasks[t] EXCEPT !.op = op, !.req = req, !.n = @ + 1] IN
         IF reconnectLock.holder = "-" /\ reconnectLock.waiters = <<>>
         THEN IngBody(t, me, <<>>)
         ELSE /\ itasks' = [itasks EXCEPT ![t] = [me EXCEPT !.pc = "lock"]]
              /\ reconnectLock' = [reconnectLock EXCEPT
                                     !.waiters = Append(@, t)]
              /\ ingEvent' = NoIngEvent
              /\ UNCHANGED <<ingestor, upstream>>
    /\ IngUnchanged

\* the lock's release woke the first waiter
IngGranted(t) ==
    /\ itasks[t].pc = "lock"
    /\ reconnectLock.holder = "-"
    /\ reconnectLock.waiters # <<>> /\ Head(reconnectLock.waiters) = t
    /\ IngBody(t, itasks[t], Tail(reconnectLock.waiters))
    /\ IngUnchanged

\* _reconnect: the old connection's close() returned; connect_binance builds
\* the URL from self.symbols and awaits websockets.connect
ReconnectClosed(t) ==
    /\ itasks[t].pc = "close"
    /\ itasks' = [itasks EXCEPT ![t].pc = "connect",
                                ![t].streams = ingestor.symbols]
    /\ ingEvent' = NoIngEvent
    /\ UNCHANGED <<ingestor, upstream, reconnectLock>>
    /\ IngUnchanged

\* _reconnect: websockets.connect returned the new connection, or raised (the
\* exception leaves add_symbols / remove_symbols)
ReconnectDone(t) ==
    /\ itasks[t].pc = "connect"
    /\ \/ /\ Len(upstream) < MaxSockets
          /\ upstream' = OpenSocket(upstream, itasks[t].streams)
          /\ IngReturn(t, itasks[t],
                       [ingestor EXCEPT !.websocket = Len(upstream) + 1],
                       reconnectLock.waiters)
       \/ /\ ingestor' = ingestor
          /\ upstream' = upstream
          /\ itasks' = [itasks EXCEPT ![t] = [IdleIng EXCEPT !.n = itasks[t].n]]
          /\ reconnectLock' = [reconnectLock EXCEPT !.holder = "-"]
          /\ ingEvent' = [NoIngEvent EXCEPT !.type = "raise", !.task = t,
                                            !.op = itasks[t].op,
                                            !.req = itasks[t].req,
                                            !.before = itasks[t].before]
    /\ IngUnchanged

\* remove_symbols: the close() of stop() returned
CallerStopDone(t) ==
    /\ itasks[t].pc = "stop_close"
    /\ t \in Callers
    /\ IngReturn(t, itasks[t], ingestor, reconnectLock.waiters)
    /\ UNCHANGED upstream
    /\ IngUnchanged

IngNext ==
    \/ RunStart
    \/ RedisDone
    \/ BinanceDone
    \/ RecvFrame
    \/ RecvEnd
    \/ PublishDone
    \/ StopCloseDone
    \/ \E k \in 1..MaxSockets : Lost(k)
    \/ \E t \in Callers : Call(t)
    \/ \E t \in Callers : IngGranted(t)
    \/ \E t \in Callers : ReconnectClosed(t)
    \/ \E t \in Callers : ReconnectDone(t)
    \/ \E t \in Callers : CallerStopDone(t)

\* ------------------------------------------------------------ alert checker
\* backend/app/services/alert_checker.py: the task of AlertChecker._run with
\* its pubsub, fed by the bus with the ticks of MultiSymbolIngestor and of the
\* single-symbol BinanceIngestor (ingestor.py).
MaxLivePrices == 1

\* AlertChecker.__init__, with nothing published yet
NewAlertChecker ==
    [running |-> FALSE, pc |-> "off", subscribed |-> {}, queue |-> <<>>,
     last_prices |-> [s \in IngSymbols |-> 0], nlive |-> 0]

\* start(): running = True and the task of _run is created; it awaits
\* get_redis_pubsub
AlertStart ==
    /\ "alerts" \in DOMAIN env
    /\ alert_checker.pc = "off" /\ ~alert_checker.running
    /\ alert_checker' = [alert_checker EXCEPT !.running = TRUE,
                                              !.pc = "subscribe"]
    /\ UNCHANGED <<notif, wsVars, env, ingVars, llmVars>>

\* _run: pubsub.subscribe("live_prices") returned, or there is no pubsub
AlertSubscribed ==
    /\ alert_checker.pc = "subscribe"
    /\ \/ alert_checker' = [alert_checker EXCEPT
                               !.subscribed = @ \cup {REDIS_CHANNEL},
                               !.pc = "poll"]
       \/ alert_checker' = [alert_checker EXCEPT !.pc = "done"]
    /\ UNCHANGED <<notif, wsVars, env, ingVars, llmVars>>

\* _process_price_message up to its database session: the last price
ProcessPriceMessage(ac, m) ==
    IF m.symbol = "" \/ m.price <= 0 THEN ac
    ELSE [ac EXCEPT !.last_prices[m.symbol] = m.price]

\* pubsub.get_message returned a message
AlertPoll ==
    /\ alert_checker.pc = "poll" /\ alert_checker.running
    /\ alert_checker.queue # <<>>
    /\ alert_checker' =
          ProcessPriceMessage([alert_checker EXCEPT !.queue = Tail(@)],
                              Head(alert_checker.queue))
    /\ UNCHANGED <<notif, wsVars, env, ingVars, llmVars>>

\* BinanceIngestor.publish_to_redis (ingestor.py): a BTCUSDT tick on
\* REDIS_CHANNEL
LivePricesPublish ==
    /\ "live" \in DOMAIN env
    /\ alert_checker.nlive < Min(env.live, MaxLivePrices)
    /\ alert_checker' =
          [Deliver(alert_checker, <<REDIS_CHANNEL>>, "BTCUSDT",
                   MaxUpFrames + alert_checker.nlive + 1)
             EXCEPT !.nlive = @ + 1]
    /\ UNCHANGED <<notif, wsVars, env, ingVars, llmVars>>

AlertNext ==
    \/ RunStart
    \/ RedisDone
    \/ BinanceDone
    \/ RecvFrame
    \/ RecvEnd
    \/ PublishDone
    \/ StopCloseDone
    \/ \E k \in 1..MaxSockets : Lost(k)
    \/ AlertStart
    \/ AlertSubscribed
    \/ AlertPoll
    \/ LivePricesPublish

\* ------------------------------------------------------------ notifications
\* backend/app/routers/ws_notifications.py with Redis enabled: the
\* NotificationConnectionManager, the handlers of websocket_notifications and
\* the tasks of _subscribe_user_channel.  Every action is one run of one task
\* between two awaits.  A subscribe task is named after the websocket whose
\* connect created it.  The transports stay up: send_to_user disconnects
\* nobody.
NWs == {"w1", "w2", "w3"}
NUsers == {1, 2}

\* __init__, the handlers before connect and the subscribe tasks not created
NotificationConnectionManager ==
    [user_connections |-> EmptyDict,
     connection_users |-> EmptyDict,
     subscribe_tasks |-> EmptyDict,
     conn |-> [w \in NWs |-> [pc |-> "new", user |-> 0, awaiting |-> "-"]],
     stask |-> [w \in NWs |-> [pc |-> "none", user |-> 0, must_cancel |-> FALSE]],
     err |-> "-"]

\* websocket_notifications with a token of user u, into connect up to
\* "await websocket.accept()"
NotifConnect(w, u) ==
    /\ notif.conn[w].pc = "new"
    /\ notif' = [notif EXCEPT !.conn[w].pc = "accept", !.conn[w].user = u,
                              !.err = "-"]
    /\ UNCHANGED <<alert_checker, wsVars, env, ingVars, llmVars>>

\* the rest of connect: both maps, and a subscribe task for a user that has
\* no entry in subscribe_tasks; the handler goes on to its receive loop
NotifAccepted(w) ==
    /\ notif.conn[w].pc = "accept"
    /\ LET u == notif.conn[w].user
           old == IF u \in DOMAIN notif.user_connections
                  THEN notif.user_connections[u] ELSE {}
           n1 == [notif EXCEPT !.user_connections = Put(@, u, old \cup {w}),
                               !.connection_users = Put(@, w, u),
                               !.conn[w].pc = "open", !.err = "-"]
       IN  notif' = IF u \in DOMAIN notif.subscribe_tasks THEN n1
                    ELSE [n1 EXCEPT !.subscribe_tasks = Put(@, u, w),
                                    !.stask[w] = [pc |-> "init", user |-> u,
                                                  must_cancel |-> FALSE]]
    /\ UNCHANGED <<alert_checker, wsVars, env, ingVars, llmVars>>

\* Task.cancel(): nothing on a finished task, else CancelledError is thrown
\* into the task at its next step
NotifCancel(n, t) ==
    IF n.stask[t].pc = "done" THEN n ELSE [n EXCEPT !.stask[t].must_cancel = TRUE]

\* the receive loop of the handler ends and its finally calls disconnect,
\* which runs up to "await self.subscribe_tasks[user_id]" (no suspension
\* there when the task is already done) or to its end
NotifDisconnect(w) ==
    /\ notif.conn[w].pc = "open"
    /\ LET u == IF w \in DOMAIN notif.connection_users
                THEN notif.connection_users[w] ELSE 0
           n0 == [notif EXCEPT !.connection_users = Del(@, w), !.err = "-"]
           closed(n) == [n EXCEPT !.conn[w].pc = "closed"]
       IN  notif' =
             IF w \notin DOMAIN notif.connection_users THEN closed(n0)
             ELSE IF u \notin DOMAIN n0.user_connections THEN closed(n0)
             ELSE IF n0.user_connections[u] \ {w} # {}
             THEN closed([n0 EXCEPT !.user_connections =
                                       Put(@, u, n0.user_connections[u] \ {w})])
             ELSE LET n1 == [n0 EXCEPT !.user_connections = Del(@, u)] IN
                  IF u \notin DOMAIN n1.subscribe_tasks THEN closed(n1)
                  ELSE LET t == n1.subscribe_tasks[u]
                           n2 == NotifCancel(n1, t)
                       IN  IF n2.stask[t].pc = "done"
                           THEN closed([n2 EXCEPT !.subscribe_tasks = Del(@, u)])
                           ELSE [n2 EXCEPT !.conn[w].pc = "await",
                                           !.conn[w].awaiting = t]
    /\ UNCHANGED <<alert_checker, wsVars, env, ingVars, llmVars>>

\* the awaited task has ended: "del self.subscribe_tasks[user_id]", a KeyError
\* when another disconnect deleted the entry meanwhile
NotifAwaitDone(w) ==
    /\ notif.conn[w].pc = "await"
    /\ notif.stask[notif.conn[w].awaiting].pc = "done"
    /\ LET u == notif.conn[w].user
           n0 == [notif EXCEPT !.conn[w].pc = "closed",
                               !.conn[w].awaiting = "-"]
       IN  notif' = IF u \in DOMAIN notif.subscribe_tasks
                    THEN [n0 EXCEPT !.subscribe_tasks = Del(@, u), !.err = "-"]
                    ELSE [n0 EXCEPT !.err = "KeyError"]
    /\ UNCHANGED <<alert_checker, wsVars, env, ingVars, llmVars>>

\* one step of _subscribe_user_channel: get_redis_pubsub (a handle or None),
\* pubsub.subscribe, the polling loop (left when the user has no connection
\* after a timeout, or by an exception of the bus), the unsubscribe of its
\* finally.  A cancellation inside the try is swallowed and runs the finally;
\* outside it ends the task.
SubscribeUserChannel(t) ==
    /\ notif.stask[t].pc \in {"init", "subscribe", "poll", "unsub"}
    /\ LET k == notif.stask[t]
           at(pc, err) == [notif EXCEPT !.stask[t].pc = pc,
                                        !.stask[t].must_cancel = FALSE,
                                        !.err = err]
       IN  CASE k.pc = "init" ->
                  IF k.must_cancel THEN notif' = at("done", "-")
                  ELSE notif' \in {at("subscribe", "-"), at("done", "-")}
             [] k.pc = "subscribe" ->
                  IF k.must_cancel THEN notif' = at("unsub", "-")
                  ELSE notif' \in {at("poll", "-"), at("unsub", "bus")}
             [] k.pc = "poll" ->
                  IF k.must_cancel THEN notif' = at("unsub", "-")
                  ELSE \/ /\ k.user \notin DOMAIN notif.user_connections
                          /\ notif' = at("unsub", "-")
                       \/ notif' = at("unsub", "bus")
             [] k.pc = "unsub" -> notif' = at("done", "-")
    /\ UNCHANGED <<alert_checker, wsVars, env, ingVars, llmVars>>

NotifNext ==
    \/ \E w \in NWs, u \in NUsers : NotifConnect(w, u)
    \/ \E w \in NWs : NotifAccepted(w)
    \/ \E w \in NWs : NotifDisconnect(w)
    \/ \E w \in NWs : NotifAwaitDone(w)
    \/ \E t \in NWs : SubscribeUserChannel(t)

\* ---------------------------------------------------- LLM provider manager
\* backend/app/services/llm/provider_manager.py: LLMProviderManager with its
\* circuit breakers, complete and complete_with_retry.  A step is the run of
\* one caller from one await (provider.complete, asyncio.sleep) to the next.
OPENAI == "openai"
ANTHROPIC == "anthropic"
GOOGLE == "google"
LLMProviderType == {OPENAI, ANTHROPIC, GOOGLE}
NoProvider == "-"
NoTime == -1
Users == {"u", "v"}

\* CircuitBreakerState()
CircuitBreakerState == [is_open |-> FALSE, failure_count |-> 0, recovery_time |-> NoTime]

IdleRequest ==
    [pc |-> "idle", mode |-> "-", preferred |-> NoProvider, n |-> 0, base |-> 0,
     attempt |-> 0, wake |-> 0, cur |-> NoProvider, idx |-> 0, todo |-> <<>>,
     tried |-> <<>>, outs |-> <<>>, blocked |-> {}, ncalls |-> 0,
     result |-> "-", rounds |-> 0]

NoLLMEvent ==
    [type |-> "none", u |-> "-", called |-> NoProvider, calledOpen |-> FALSE,
     begun |-> FALSE, elapsed |-> {}, list |-> <<>>, ended |-> "-",
     failed |-> NoProvider, preferred |-> NoProvider, tried |-> <<>>,
     outs |-> <<>>, blocked |-> {}, response |-> NoProvider]

InSeq(x, q) == \E i \in 1..Len(q) : q[i] = x

\* the state a step of the manager works on
LLM ==
    [cb |-> circuit_breakers, pv |-> providers, now |-> clock, rq |-> requests,
     ev |-> NoLLMEvent]

LLMCommit(l) ==
    /\ circuit_breakers' = l.cb
    /\ providers' = l.pv
    /\ requests' = l.rq
    /\ llmEvent' = l.ev
    /\ UNCHANGED <<clock, llmEnv, wsVars, env, ingVars, auxVars>>

\* the circuit of p is open and its recovery time is still ahead
Blocking(cb, p, now) ==
    /\ p \in DOMAIN cb
    /\ cb[p].is_open
    /\ ~(cb[p].recovery_time # NoTime /\ now >= cb[p].recovery_time)

\* _is_circuit_open: the answer, and the breakers after the lazy recovery
IsCircuitOpen(cb, p, now) ==
    IF p \notin DOMAIN cb \/ ~cb[p].is_open THEN [open |-> FALSE, cb |-> cb]
    ELSE IF cb[p].recovery_time # NoTime /\ now >= cb[p].recovery_time
    THEN [open |-> FALSE,
          cb |-> [cb EXCEPT ![p] = [@ EXCEPT !.is_open = FALSE,
                                             !.failure_count = 0]]]
    ELSE [open |-> TRUE, cb |-> cb]

\* a breaker that opens one failure early
RecordFailureEarly(cb, p, now) ==
    LET n == cb[p].failure_count + 1 IN
    [cb EXCEPT ![p] =
        IF n >= FAILURE_THRESHOLD - 1
        THEN [is_open |-> TRUE, failure_count |-> n,
              recovery_time |-> now + RECOVERY_TIMEOUT]
        ELSE [@ EXCEPT !.failure_count = n]]

\* _record_failure
RecordFailure(cb, p, now) ==
    LET n == cb[p].failure_count + 1 IN
    [cb EXCEPT ![p] =
        IF n >= FAILURE_THRESHOLD
        THEN [is_open |-> TRUE, failure_count |-> n,
              recovery_time |-> now + RECOVERY_TIMEOUT]
        ELSE [@ EXCEPT !.failure_count = n]]

\* _record_success
RecordSuccess(cb, p) ==
    [cb EXCEPT ![p] = [@ EXCEPT !.failure_count = 0, !.is_open = FALSE]]

\* the loop over self._fallback_order in _get_available_providers
RECURSIVE FallbackLoop(_, _, _, _, _)
FallbackLoop(e, order, available, cb, now) ==
    IF order = <<>> THEN [list |-> available, cb |-> cb]
    ELSE LET p == Head(order) IN
         IF InSeq(p, available) \/ p \notin e.registered
         THEN FallbackLoop(e, Tail(order), available, cb, now)
         ELSE LET r == IsCircuitOpen(cb, p, now) IN
              FallbackLoop(e, Tail(order),
                           IF r.open THEN available ELSE Append(available, p),
                           r.cb, now)

\* an availability list in fallback order only, the primary not put first
GetAvailableProvidersNoPrimary(e, cb, now) ==
    FallbackLoop(e, e.fallback_order, <<>>, cb, now)

\* _get_available_providers: the primary first, then the fallback order
GetAvailableProviders(e, cb, now) ==
    IF e.primary # NoProvider /\ e.primary \in e.registered
    THEN LET r == IsCircuitOpen(cb, e.primary, now) IN
         FallbackLoop(e, e.fallback_order,
                      IF r.open THEN <<>> ELSE <<e.primary>>, r.cb, now)
    ELSE FallbackLoop(e, e.fallback_order, <<>>, cb, now)

\* providers_to_try.remove(preferred); providers_to_try.insert(0, preferred)
Prefer(list, preferred) ==
    IF preferred # NoProvider /\ InSeq(preferred, list)
    THEN <<preferred>> \o SelectSeq(list, LAMBDA x : x # preferred)
    ELSE list

\* complete() is over: what it tried and how it ended is the step's event
CompleteEnded(l, u, how, response) ==
    [l EXCEPT !.ev.ended = how, !.ev.u = u, !.ev.tried = l.rq[u].tried,
              !.ev.outs = l.rq[u].outs, !.ev.blocked = l.rq[u].blocked,
              !.ev.preferred = l.rq[u].preferred, !.ev.response = response,
              !.rq[u].cur = NoProvider, !.rq[u].todo = <<>>,
              !.rq[u].tried = <<>>, !.rq[u].outs = <<>>, !.rq[u].blocked = {},
              !.rq[u].idx = 0]

\* the caller has its answer
RequestDone(l, u, result) ==
    [l EXCEPT !.rq[u].pc = "done", !.rq[u].result = result, !.rq[u].wake = 0]

\* complete() returned a response
CompleteReturned(l, u, p) == RequestDone(CompleteEnded(l, u, "return", p), u, "ok")

\* complete() raised RuntimeError: to the caller, or into the retry loop of
\* complete_with_retry, which sleeps base_delay * 2 ** attempt or gives up
CompleteRaised(l, u) ==
    LET l1 == CompleteEnded(l, u, "raise", NoProvider)
        r == l.rq[u]
    IN  IF r.mode = "retry" /\ r.attempt < r.n
        THEN [l1 EXCEPT !.rq[u].pc = "sleep",
                        !.rq[u].wake = l.now + r.base * (2 ^ r.attempt)]
        ELSE RequestDone(l1, u, "error")

\* response = await provider.complete(request): the call is made
CallNext(l, u) ==
    LET p == Head(l.rq[u].todo) IN
    [l EXCEPT !.rq[u].pc = "call", !.rq[u].cur = p, !.rq[u].todo = Tail(@),
              !.rq[u].tried = Append(@, p), !.rq[u].ncalls = @ + 1,
              !.rq[u].idx = l.pv[p].calls + 1,
              !.pv[p].calls = @ + 1,
              !.ev.type = "call", !.ev.u = u, !.ev.called = p,
              !.ev.calledOpen = Blocking(l.cb, p, l.now)]

\* complete() from its start to its first provider call or its raise
BeginComplete(l, u) ==
    LET e == llmEnv
        g == GetAvailableProviders(e, l.cb, l.now)
        list == Prefer(g.list, l.rq[u].preferred)
        l1 == [l EXCEPT !.cb = g.cb,
                        !.pv = [p \in DOMAIN l.pv |->
                                  IF p \in DOMAIN l.cb /\ l.cb[p].is_open
                                     /\ ~g.cb[p].is_open
                                  THEN [l.pv[p] EXCEPT !.streak = 0]
                                  ELSE l.pv[p]],
                        !.rq[u].todo = list, !.rq[u].tried = <<>>,
                        !.rq[u].outs = <<>>,
                        !.rq[u].blocked =
                            {p \in e.registered : Blocking(l.cb, p, l.now)},
                        !.ev.begun = TRUE, !.ev.list = list,
                        !.ev.elapsed =
                            {p \in e.registered :
                                l.cb[p].is_open /\ ~Blocking(l.cb, p, l.now)}]
    IN  IF list = <<>> THEN CompleteRaised(l1, u) ELSE CallNext(l1, u)

\* a caller enters complete, or complete_with_retry on its first attempt
Begin(u) ==
    /\ u \in llmEnv.users
    /\ requests[u].pc \in {"idle", "done"}
    /\ requests[u].rounds < llmEnv.rounds
    /\ \E mode \in llmEnv.modes[u], pref \in llmEnv.prefs, n \in llmEnv.ns,
          base \in llmEnv.bases :
          LLMCommit(BeginComplete(
              [LLM EXCEPT !.rq[u] =
                  [IdleRequest EXCEPT !.mode = mode, !.preferred = pref,
                                      !.n = IF mode = "retry" THEN n ELSE 0,
                                      !.base = IF mode = "retry" THEN base ELSE 0,
                                      !.rounds = requests[u].rounds + 1]], u))

\* what the provider call in flight can do: a flaky provider fails its first
\* k calls, any other provider succeeds or raises
Outcomes(u) ==
    IF llmEnv.flaky THEN {requests[u].idx > llmEnv.k} ELSE BOOLEAN

\* provider.complete returned or raised inside complete()
CallDone(u) ==
    /\ requests[u].pc = "call"
    /\ \E ok \in Outcomes(u) :
         LET p == requests[u].cur
             l0 == [LLM EXCEPT !.rq[u].outs = Append(@, ok)]
         IN  IF ok
             THEN LLMCommit(CompleteReturned(
                      [l0 EXCEPT !.cb = RecordSuccess(LLM.cb, p),
                                 !.pv[p].streak = 0], u, p))
             ELSE LET l1 == [l0 EXCEPT !.cb = RecordFailure(LLM.cb, p, clock),
                                       !.pv[p].streak = @ + 1,
                                       !.ev.failed = p]
                  IN  LLMCommit(IF l1.rq[u].todo = <<>> THEN CompleteRaised(l1, u)
                                ELSE CallNext(l1, u))

\* asyncio.sleep(delay) of complete_with_retry is over: the next attempt
RetrySleepDone(u) ==
    /\ requests[u].pc = "sleep"
    /\ clock >= requests[u].wake
    /\ LLMCommit(BeginComplete([LLM EXCEPT !.rq[u].attempt = @ + 1,
                                           !.rq[u].wake = 0], u))

\* time passes while a caller sleeps or an open circuit waits to recover
Tick ==
    /\ clock < MaxClock
    /\ \/ \E u \in Users : requests[u].pc = "sleep" /\ requests[u].wake > clock
       \/ \E p \in DOMAIN circuit_breakers : Blocking(circuit_breakers, p, clock)
    /\ clock' = clock + 1
    /\ llmEvent' = NoLLMEvent
    /\ UNCHANGED <<circuit_breakers, providers, requests, llmEnv, wsVars, env,
                   ingVars, auxVars>>

LLMNext ==
    \/ \E u \in Users : Begin(u)
    \/ \E u \in Users : CallDone(u)
    \/ \E u \in Users : RetrySleepDone(u)
    \/ Tick

\* the manager after register_provider / set_primary_provider /
\* set_fallback_order: no call made, every circuit closed
InitLLM(e) ==
    /\ circuit_breakers = [p \in e.registered |-> CircuitBreakerState]
    /\ providers = [p \in LLMProviderType |-> [calls |-> 0, streak |-> 0]]
    /\ clock = 0
    /\ requests = [u \in Users |-> IdleRequest]
    /\ llmEvent = NoLLMEvent
    /\ llmEnv = e

\* a run without callers of the provider manager
NoRequests ==
    [registered |-> {}, primary |-> NoProvider, fallback_order |-> <<>>,
     users |-> {}, rounds |-> 0, modes |-> [u \in Users |-> {}], prefs |-> {}, ns |-> {},
     bases |-> {}, flaky |-> FALSE, k |-> 0]

InitAll(e, l) ==
    /\ client_subscriptions = EmptyDict
    /\ symbol_subscribers = EmptyDict
    /\ redis_tasks = EmptyDict
    /\ lockHolder = NoTask
    /\ lockWaiters = <<>>
    /\ tasks = [t \in TaskIds |->
                  IF t \in Handlers
                  THEN IdleTask(IF t[2] \in e.clients THEN "new" ELSE "off")
                  ELSE IdleTask("none")]
    /\ alive = [c \in AllClients |-> TRUE]
    /\ busSubscribed = {}
    /\ pubsubQueue = <<>>
    /\ received = [c \in AllClients |-> <<>>]
    /\ published = 0
    /\ event = NoEvent
    /\ env = e
    /\ ingestor = NewIngestor({})
    /\ upstream = <<>>
    /\ reconnectLock = FreeLock
    /\ itasks = [t \in IngTasks |-> IdleIng]
    /\ ingEvent = NoIngEvent
    /\ InitLLM(l)
    /\ alert_checker = NewAlertChecker
    /\ notif = NotificationConnectionManager

InitWith(e) == InitAll(e, NoRequests)

\* the ingestor of a run that has none
NoIngestor ==
    [runner |-> FALSE, callers |-> {}, ops |-> {}, ireqs |-> {}, ncalls |-> 0,
     upframes |-> 0]

BTC == "BTCUSDT"
ETH == "ETHUSDT"

\* two clients, every kind of frame, one frame each, one tick
Init ==
    InitWith([clients |-> {"a", "b"},
              initial |-> [c \in AllClients |->
                             IF c = "a" THEN {{BTC}} ELSE {{BTC, ETH}}],
              reqs |-> {{BTC}, DEFAULT_SYMBOLS},
              frames |-> FrameKinds,
              nframes |-> [c \in AllClients |-> FewFrames],
              ticks |-> FewTicks] @@ NoIngestor)

Spec == Init /\ [][Next]_vars

\* requests above the cap: a connects with three symbols (listed, or by
\* default) and sends subscribe / unsubscribe frames, b connects with one
InitCap ==
    InitWith([clients |-> {"a", "b"},
              initial |-> [c \in AllClients |->
                             IF c = "a" THEN {{}, DEFAULT_SYMBOLS}
                             ELSE {{BTC}}],
              reqs |-> {DEFAULT_SYMBOLS},
              frames |-> {"subscribe", "unsubscribe"},
              nframes |-> [c \in AllClients |->
                             IF c = "a" THEN MaxFrames ELSE 0],
              ticks |-> FewTicks] @@ NoIngestor)

SpecCap == InitCap /\ [][Next]_vars

\* two ticks, no frames
InitTicks ==
    InitWith([clients |-> {"a", "b"},
              initial |-> [c \in AllClients |->
                             IF c = "a" THEN {{BTC}} ELSE {{BTC, ETH}}],
              reqs |-> {},
              frames |-> {},
              nframes |-> [c \in AllClients |-> 0],
              ticks |-> MaxTicks] @@ NoIngestor)

SpecTicks == InitTicks /\ [][Next]_vars

\* three clients, no frames, one tick
InitThree ==
    InitWith([clients |-> AllClients,
              initial |-> [c \in AllClients |->
                             IF c = "b" THEN {{BTC, ETH}} ELSE {{BTC}}],
              reqs |-> {},
              frames |-> {},
              nframes |-> [c \in AllClients |-> 0],
              ticks |-> FewTicks] @@ NoIngestor)

SpecThree == InitThree /\ [][Next]_vars

SOL == "SOLUSDT"

\* the ingestor alone: run_multi_ingestor and two callers of add_symbols /
\* remove_symbols, no websocket client
InitIng ==
    InitWith([clients |-> {},
              initial |-> [c \in AllClients |-> {}],
              reqs |-> {},
              frames |-> {},
              nframes |-> [c \in AllClients |-> 0],
              ticks |-> 0,
              runner |-> TRUE,
              callers |-> Callers,
              ops |-> {"add", "remove"},
              ireqs |-> {{BTC, SOL}, DEFAULT_SYMBOLS},
              ncalls |-> MaxCalls,
              upframes |-> MaxUpFrames])

SpecIng == InitIng /\ [][IngNext]_vars

\* the subscription manager with two clients and one tick, next to a caller of
\* add_symbols / remove_symbols on an ingestor that has not been started
InitBoth ==
    InitWith([clients |-> {"a", "b"},
              initial |-> [c \in AllClients |->
                             IF c = "a" THEN {{BTC}} ELSE {{BTC, ETH}}],
              reqs |-> {},
              frames |-> {},
              nframes |-> [c \in AllClients |-> 0],
              ticks |-> FewTicks,
              runner |-> FALSE,
              callers |-> {"x"},
              ops |-> {"add", "remove"},
              ireqs |-> {{BTC}},
              ncalls |-> MaxCalls,
              upframes |-> 0])

BothNext == Next \/ \E t \in Callers : Call(t)

SpecBoth == InitBoth /\ [][BothNext]_vars

\* run_multi_ingestor next to the alert checker and the single-symbol
\* ingestor, no caller of add_symbols / remove_symbols
InitAlert ==
    InitWith([clients |-> {},
              initial |-> [c \in AllClients |-> {}],
              reqs |-> {},
              frames |-> {},
              nframes |-> [c \in AllClients |-> 0],
              ticks |-> 0,
              runner |-> TRUE,
              callers |-> {},
              ops |-> {},
              ireqs |-> {},
              ncalls |-> 0,
              upframes |-> MaxUpFrames,
              alerts |-> TRUE,
              live |-> MaxLivePrices])

SpecAlert == InitAlert /\ [][AlertNext]_vars

\* no websocket client, no ingestor
NoClients ==
    [clients |-> {}, initial |-> [c \in AllClients |-> {}], reqs |-> {},
     frames |-> {}, nframes |-> [c \in AllClients |-> 0], ticks |-> 0]
    @@ NoIngestor

\* three websockets on /ws/notifications, nothing else running
InitNotif == InitWith(NoClients)

SpecNotif == InitNotif /\ [][NotifNext]_vars

\* every duplicate-free list over a set of providers
Orders(S) ==
    {q \in UNION {[1..n -> S] : n \in 0..Cardinality(S)} :
        \A i, j \in 1..Len(q) : i # j => q[i] # q[j]}

\* two concurrent callers of the provider manager, u of complete_with_retry
\* and v of complete; none, one or two providers registered, any primary and
\* fallback order, every call free to fail
InitProviders ==
    \E reg \in {{}, {OPENAI}, {OPENAI, ANTHROPIC}} :
    \E prim \in IF reg = {} THEN {NoProvider} ELSE reg :
    \E order \in Orders(reg) :
       InitAll(NoClients,
               [registered |-> reg, primary |-> prim, fallback_order |-> order,
                users |-> Users, rounds |-> 1,
                modes |-> [u \in Users |->
                             IF u = "u" THEN {"retry"} ELSE {"complete"}],
                prefs |-> {NoProvider, ANTHROPIC},
                ns |-> {FAILURE_THRESHOLD - 1}, bases |-> {0},
                flaky |-> FALSE, k |-> 0])

SpecProviders == InitProviders /\ [][LLMNext]_vars

\* test_complete_with_retry for every k and n: one caller of
\* complete_with_retry, one provider whose first k calls fail
InitRetry ==
    \E k \in 0..(MaxRetries + 1) :
       InitAll(NoClients,
               [registered |-> {OPENAI}, primary |-> OPENAI,
                fallback_order |-> <<OPENAI>>, users |-> {"u"}, rounds |-> 1,
                modes |-> [u \in Users |-> {"retry"}],
                prefs |-> {NoProvider},
                ns |-> 0..MaxRetries, bases |-> {0, 1}, flaky |-> TRUE,
                k |-> k])

SpecRetry == InitRetry /\ [][LLMNext]_vars

\* ------------------------------------------------------------------ claims
Subscribers(s) == IF s \in DOMAIN symbol_subscribers THEN symbol_subscribers[s] ELSE {}
Subscriptions(c) ==
    IF c \in DOMAIN client_subscriptions THEN client_subscriptions[c] ELSE {}

\* C1 No misdelivery: a price message made from a tick of channel(S) is sent
\* only to a client that is in S's subscriber set when it is sent.
C1_NoMisdelivery ==
    (event.type = "price" /\ alive[event.c])
        => event.c \in Subscribers(event.msg.sym)

\* C2 Index consistency: at every point where a task can observe the indices,
\* c is in symbol_subscribers[s] iff s is in client_subscriptions[c].
C2_IndexConsistency ==
    \A c \in AllClients, s \in Symbols :
        c \in Subscribers(s) <=> s \in Subscriptions(c)

\* C2's case: a reader's failed send disconnected one client while another
\* client keeps its subscriptions
C2_Witness ==
    /\ event.touched # {}
    /\ lockHolder \in Readers
    /\ \E c \in AllClients \ event.touched : Subscriptions(c) # {}

\* C3 Reader lifecycle: between manager operations a symbol has an entry in
\* redis_tasks iff its subscriber set is non-empty, also when the bus fails.
C3_ReaderLifecycle ==
    (lockHolder = NoTask /\ lockWaiters = <<>>) =>
        \A s \in Symbols : s \in DOMAIN redis_tasks <=> Subscribers(s) # {}

\* C4 Cap invariant: no client ever holds more than MAX_SYMBOLS_PER_CLIENT
\* symbols.
C4_CapInvariant ==
    \A c \in DOMAIN client_subscriptions :
        Cardinality(client_subscriptions[c]) <= MAX_SYMBOLS_PER_CLIENT

\* C4's case: a subscribe frame asked for more than the cap leaves room for,
\* some of it already held, and the client ends at the cap
C4_Witness ==
    /\ event.type = "reply" /\ event.frame = "subscribe"
    /\ event.held > 0
    /\ Cardinality(event.req) > MAX_SYMBOLS_PER_CLIENT - event.held
    /\ Cardinality(Subscriptions(event.c)) = MAX_SYMBOLS_PER_CLIENT

\* the step that completes a's unsubscribe from BTCUSDT while b, connected
\* with BTCUSDT and ETHUSDT, holds both
C5_Scenario ==
    /\ env.initial["a"] = {{BTC}}
    /\ Subscriptions("b") = {BTC, ETH}
    /\ event'.type = "reply" /\ event'.c = "a" /\ event'.frame = "unsubscribe"
    /\ event'.reply = [type |-> "unsubscribed", symbols |-> {BTC}]

\* C5 as stated: after A connects with BTCUSDT, B with BTCUSDT and ETHUSDT, and
\* A unsubscribes from BTCUSDT, BTCUSDT has no subscriber and its reader task
\* is cancelled, while B's ETHUSDT subscription and reader are unaffected.
C5_AsStated ==
    [][C5_Scenario =>
         /\ Subscribers(BTC)' = {}
         /\ BTC \notin DOMAIN redis_tasks'
         /\ ETH \in Subscriptions("b")'
         /\ ETH \in DOMAIN redis_tasks' <=> ETH \in DOMAIN redis_tasks]_vars

\* C5 amended: after A unsubscribes, B is the one subscriber BTCUSDT has left
\* and no reader task is cancelled (BTCUSDT's runs on for B); B's
\* subscriptions, ETHUSDT's subscriber set and the bus subscriptions are as
\* they were.
C5_Amended ==
    [][C5_Scenario =>
         /\ Subscribers(BTC)' = {"b"}
         /\ redis_tasks' = redis_tasks
         /\ \A r \in Readers : tasks'[r].pc = "none" <=> tasks[r].pc = "none"
         /\ Subscriptions("b")' = {BTC, ETH}
         /\ Subscribers(ETH)' = Subscribers(ETH)
         /\ busSubscribed' = busSubscribed]_vars

\* C5's case: a's unsubscribe from BTCUSDT was acknowledged while b holds both
\* symbols and both readers run
C5_Witness ==
    /\ event.type = "reply" /\ event.c = "a" /\ event.frame = "unsubscribe"
    /\ event.reply = [type |-> "unsubscribed", symbols |-> {BTC}]
    /\ Subscriptions("b") = {BTC, ETH}
    /\ {BTC, ETH} \subseteq DOMAIN redis_tasks
    /\ "a" \in DOMAIN client_subscriptions

\* C6 Idempotent disconnect: a disconnect of a client whose disconnect already
\* completed raises nothing, removes that client from nothing, cancels no
\* reader a second time, and leaves the three dicts as they were when the step
\* holds no other removal.
C6_IdempotentDisconnect ==
    [][event'.again # {} =>
         /\ event'.err \notin {"KeyError", "cancelled twice"}
         /\ event'.again \cap event'.touched = {}
         /\ event'.touched = {} =>
              UNCHANGED <<client_subscriptions, symbol_subscribers, redis_tasks>>
       ]_vars

\* C6's case: the reader's disconnect of a client whose send failed came after
\* the disconnect from that client's own handler (the reader was queued on the
\* lock behind it, or found the client gone)
C6_Witness ==
    /\ event.again # {}
    /\ \E r \in Readers : tasks[r].pc # "none" /\ event.err = "-"
    /\ \E c \in event.again : tasks[H(c)].pc = "done"

\* C7 Every inbound frame gets a reply: when the handler is through with a text
\* frame of a client that is still connected, it has sent that client exactly
\* one acknowledgement or error.
C7_EveryFrameOneReply ==
    (event.type = "reply" /\ event.frame \in FrameKinds /\ alive[event.c])
        => event.acks = 1

\* the ticks of symbol s that client c received, in the order received
RECURSIVE TicksOf(_, _)
TicksOf(log, s) ==
    IF log = <<>> THEN <<>>
    ELSE IF Head(log).sym = s THEN <<Head(log).n>> \o TicksOf(Tail(log), s)
    ELSE TicksOf(Tail(log), s)

\* C8 Per-symbol ordering: a client that stays subscribed to S receives the
\* ticks of S in the order they were published.
C8_PerSymbolOrder ==
    \A c \in AllClients, s \in Symbols :
        c \in Subscribers(s) =>
            LET q == TicksOf(received[c], s)
            IN  \A i, j \in 1..Len(q) : i < j => q[i] < q[j]

\* C9 Cap scenario: a client that holds nothing and asks for more than
\* MAX_SYMBOLS_PER_CLIENT symbols, in the initial list or in a subscribe
\* frame, is acknowledged exactly MAX_SYMBOLS_PER_CLIENT symbols, and these are
\* the symbols recorded for it.
C9_CapScenario ==
    (/\ event.type = "reply" /\ event.frame \in {"connect", "subscribe"}
     /\ event.held = 0
     /\ Cardinality(event.req) > MAX_SYMBOLS_PER_CLIENT
     /\ event.reply.type = "subscribed")
        => /\ Cardinality(event.reply.symbols) = MAX_SYMBOLS_PER_CLIENT
           /\ Subscriptions(event.c) = event.reply.symbols

\* C9's case, by a subscribe frame: the client had unsubscribed everything
C9_Witness ==
    /\ event.type = "reply" /\ event.frame = "subscribe"
    /\ event.held = 0
    /\ Cardinality(event.req) > MAX_SYMBOLS_PER_CLIENT
    /\ event.reply.type = "subscribed"

\* C10 One reader per symbol: at any time at most one task runs the message
\* loop of a symbol.
C10_OneReaderPerSymbol ==
    \A s \in Symbols :
        Cardinality({k \in 1..ReaderSlots : tasks[R(s, k)].pc = "poll"}) <= 1
\* C11 Readers are covered by ingestion: every symbol that has a reader task
\* in the subscription manager is in the ingestor's tracked symbol set.
C11_ReadersCovered ==
    \A s \in DOMAIN redis_tasks : s \in ingestor.symbols

\* C12 Global symbol cap: the ingestor never tracks more than
\* MAX_TOTAL_SYMBOLS symbols.
C12_GlobalCap ==
    Cardinality(ingestor.symbols) <= MAX_TOTAL_SYMBOLS

C14_RetryUntilExhausted ==
    (itasks[RUN].pc = "done" /\ itasks[RUN].cause \in {"connect", "lost"})
        => itasks[RUN].attempt = max_retries

C16_BusFailureRejected ==
    [][\A t \in Handlers :
         LET s == tasks[t].cur
             c == t[2]
         IN  (tasks[t].pc = "start" /\ tasks'[t] # tasks[t]
              /\ s \notin DOMAIN redis_tasks')
             => /\ c \in DOMAIN client_subscriptions'
                   => s \notin client_subscriptions'[c]
                /\ ~(event'.type = "reply" /\ event'.reply.type = "subscribed"
                     /\ s \in event'.reply.symbols)]_vars

\* a client whose transport failed (receive and send raise) or whose handler
\* left its receive loop by an exception and is in its finally
Failed(c) == ~alive[c] \/ tasks[H(c)].ret = "done"

\* the task is suspended at an await that is certain to return: the bus call
\* of the manager operation it runs under the lock, or Lock.acquire with the
\* lock held by such a task or free with the queue's head about to be woken
Pending(t) ==
    \/ tasks[t].pc \in {"start", "stop"}
    \/ /\ tasks[t].pc = "lock"
       /\ \E i \in 1..Len(lockWaiters) : lockWaiters[i] = t
       /\ \/ lockHolder # NoTask /\ tasks[lockHolder].pc \in {"start", "stop"}
          \/ lockHolder = NoTask /\ tasks[Head(lockWaiters)].pc = "lock"

\* C17: a transport failure becomes a disconnect.  A client whose receive loop
\* ended or whose send failed is never left registered by a handler that has
\* returned or is stuck: while it is still registered its handler is at the
\* receive that raises or inside a manager call that is bound to go on; once
\* disconnect has run (the handler has returned, or the record is gone) the
\* client is in no symbol's subscriber set; and no exception (KeyError) leaves
\* a manager call into a handler or a reader task on the way.
C17_FailureBecomesDisconnect ==
    /\ \A c \in AllClients :
          /\ tasks[H(c)].pc = "done" => c \notin DOMAIN client_subscriptions
          /\ c \notin DOMAIN client_subscriptions
                => \A s \in DOMAIN symbol_subscribers :
                      c \notin symbol_subscribers[s]
          /\ (Failed(c) /\ c \in DOMAIN client_subscriptions)
                => tasks[H(c)].pc = "recv" \/ Pending(H(c))
    /\ \A r \in Readers : tasks[r].pc \in {"lock", "start", "stop"} => Pending(r)
    /\ event.err # "KeyError"

\* client a's transport failed, its handler has returned and the disconnect
\* took it out of both indices in this step, while b is still served
C17_Witness ==
    /\ ~alive["a"] /\ alive["b"]
    /\ tasks[H("a")].pc = "done"
    /\ event.touched = {"a"}
    /\ "a" \notin DOMAIN client_subscriptions
    /\ "b" \in DOMAIN client_subscriptions
    /\ BTC \in DOMAIN symbol_subscribers /\ symbol_subscribers[BTC] = {"b"}

\* the providers complete() may use: registered, and the primary or in the
\* fallback order
Considered ==
    {p \in llmEnv.registered :
        p = llmEnv.primary \/ InSeq(p, llmEnv.fallback_order)}

\* C18 Circuit breaker: a provider whose last FAILURE_THRESHOLD calls (since
\* its circuit last closed) all failed has its circuit open; no call is made
\* to a provider while its circuit is open and its recovery time is ahead; a
\* complete() that starts after the recovery time finds the circuit closed with
\* failure_count 0 and has the provider in the list it tries.
C18_Opens ==
    \A p \in DOMAIN circuit_breakers :
       (llmEvent.failed = p /\ providers[p].streak >= FAILURE_THRESHOLD)
          => circuit_breakers[p].is_open
C18_Recovers ==
    llmEvent.begun =>
       \A p \in llmEvent.elapsed \cap Considered :
          /\ InSeq(p, llmEvent.list)
          /\ ~circuit_breakers[p].is_open
          /\ circuit_breakers[p].failure_count = 0
C18_NoCallWhileOpen == (llmEvent.called # NoProvider) => ~llmEvent.calledOpen
C18_CircuitBreaker == C18_Opens /\ C18_NoCallWhileOpen /\ C18_Recovers

\* C19 Retry until success, as stated: with one provider whose first k calls
\* fail, complete_with_retry(max_retries = n), k <= n, returns a response
\* after exactly k + 1 provider calls.
C19_AsStated ==
    \A u \in Users :
       (llmEnv.flaky /\ requests[u].pc = "done" /\ requests[u].mode = "retry"
        /\ llmEnv.k <= requests[u].n)
          => /\ requests[u].result = "ok"
             /\ requests[u].ncalls = llmEnv.k + 1
             /\ providers[OPENAI].calls = llmEnv.k + 1

\* C19 amended: the same for k <= n and k < FAILURE_THRESHOLD.
C19_Amended ==
    \A u \in Users :
       (llmEnv.flaky /\ requests[u].pc = "done" /\ requests[u].mode = "retry"
        /\ llmEnv.k <= requests[u].n /\ llmEnv.k < FAILURE_THRESHOLD)
          => /\ requests[u].result = "ok"
             /\ requests[u].ncalls = llmEnv.k + 1
             /\ providers[OPENAI].calls = llmEnv.k + 1

\* the test's case: k = 2, n = 3, a response after three calls
C19_Witness ==
    /\ llmEnv.flaky /\ llmEnv.k = 2
    /\ requests["u"].pc = "done" /\ requests["u"].n = 3
    /\ requests["u"].result = "ok" /\ requests["u"].ncalls = 3
    /\ clock = 3

\* the order complete() is to try the providers of A in: the preferred one,
\* the primary, the others in fallback order
ExpectedOrder(A, preferred) ==
    LET first == IF preferred \in A THEN <<preferred>> ELSE <<>>
        second == IF llmEnv.primary \in A /\ llmEnv.primary # preferred
                  THEN <<llmEnv.primary>> ELSE <<>>
    IN  first \o second \o
        SelectSeq(llmEnv.fallback_order,
                  LAMBDA p : p \in A /\ p # preferred /\ p # llmEnv.primary)

IsPrefix(q, r) == Len(q) <= Len(r) /\ \A i \in 1..Len(q) : q[i] = r[i]

\* C20 Fallback: when complete() ends, the providers it called are a prefix of
\* the available ones in order (preferred, primary, fallback order), each
\* called once; it returns the response of the first that succeeded, every
\* earlier one having failed; it raises only after all of them failed (or none
\* was available).
C20_Fallback ==
    (llmEvent.ended # "-") =>
       LET A == Considered \ llmEvent.blocked
           exp == ExpectedOrder(A, llmEvent.preferred)
           tried == llmEvent.tried
           outs == llmEvent.outs
       IN  /\ IsPrefix(tried, exp)
           /\ Len(outs) = Len(tried)
           /\ \A i \in 1..Len(outs) :
                 outs[i] = (llmEvent.ended = "return" /\ i = Len(outs))
           /\ llmEvent.ended = "return"
                 => tried # <<>> /\ llmEvent.response = tried[Len(tried)]
           /\ llmEvent.ended = "raise" => tried = exp

\* complete(preferred = anthropic) with primary openai: the preferred provider
\* failed, the primary answered
C20_Witness ==
    /\ llmEvent.ended = "return"
    /\ llmEvent.preferred = ANTHROPIC /\ llmEnv.primary = OPENAI
    /\ llmEvent.tried = <<ANTHROPIC, OPENAI>>
    /\ llmEvent.response = OPENAI

\* C21: the fan-out iterates a snapshot.  No subscribe, unsubscribe or
\* disconnect that runs while a reader is suspended in a send of
\* broadcast_to_symbol makes the reader's iteration fail: no step of a reader
\* ends its pass with "Set changed size during iteration".
C21_SnapshotIteration == event.err # "RuntimeError"

\* C22: send failure cleanup.  Every client whose send failed in a broadcast
\* (it is in the reader's `disconnected` set) leaves that set only into a
\* disconnect run by the reader, and when that disconnect is over the client
\* has no record and is in no subscriber set; this also when the disconnect
\* stops the reader's own symbol.  A broadcast whose reader is cancelled by
\* another task before its iteration ends (it was the registered reader of its
\* symbol and is ended without having run) is not the claim's case.
C22_SendFailureCleanup ==
    [][\A r \in Readers :
          LET cancelled == /\ r[2] \in DOMAIN redis_tasks
                           /\ redis_tasks[r[2]] = r[3]
                           /\ tasks[r].pc \in {"send", "lock"}
                           /\ tasks'[r].pc = "none"
              gone(c) == /\ c \notin DOMAIN client_subscriptions'
                         /\ \A s \in DOMAIN symbol_subscribers' :
                               c \notin symbol_subscribers'[s]
          IN  \/ cancelled
              \/ /\ \A c \in tasks[r].failed \ tasks'[r].failed :
                       \/ tasks'[r].kind = "disc" /\ tasks'[r].w = c
                       \/ gone(c)
                 /\ \A c \in AllClients :
                       (/\ tasks[r].kind = "disc" /\ tasks[r].w = c
                        /\ tasks'[r].kind # "disc" \/ tasks'[r].w # c)
                          => gone(c)]_vars

\* C23: subscribe stops adding only at the cap.  When a subscribe (the one of
\* the connect, or of a subscribe frame) has returned and been acknowledged,
\* the client holds every symbol it asked for or holds exactly
\* MAX_SYMBOLS_PER_CLIENT symbols, also when it asked for symbols it held.
C23_StopsOnlyAtCap ==
    (/\ event.type = "reply" /\ event.reply.type = "subscribed"
     /\ event.frame \in {"connect", "subscribe"}
     /\ event.c \in DOMAIN client_subscriptions)
        => \/ event.req \subseteq client_subscriptions[event.c]
           \/ Cardinality(client_subscriptions[event.c]) = MAX_SYMBOLS_PER_CLIENT

\* C24: a reconnect keeps the ingestor streaming.  When add_symbols has
\* reconnected (the connection it opened streams more symbols than the one
\* before it), the read loop of start() has not ended on the connection the
\* reconnect closed: the ingestor is not left stopped.
C24_ReconnectKeepsStreaming ==
    \A k \in 2..Len(upstream) :
        (/\ upstream[k - 1].streams \subseteq upstream[k].streams
         /\ upstream[k - 1].streams # upstream[k].streams)
            => ~(/\ itasks[RUN].pc \in {"stop_close", "done"}
                 /\ itasks[RUN].sock = k - 1
                 /\ itasks[RUN].cause = "closed")

\* C25: close before open.  At no time are two upstream connections open, and
\* reconnects never overlap: at most one caller is inside _reconnect (or the
\* close of stop()), it holds _reconnect_lock, and the connection it is
\* replacing is closed from the moment it awaits close() until the new one is
\* opened.
C25_CloseBeforeOpen ==
    LET open == {k \in 1..Len(upstream) : upstream[k].state = "open"}
        busy == {t \in Callers :
                    itasks[t].pc \in {"close", "connect", "stop_close"}}
    IN  /\ Cardinality(open) <= 1
        /\ Cardinality(busy) <= 1
        /\ \A t \in busy :
              /\ reconnectLock.holder = t
              /\ itasks[t].pc \in {"close", "connect"}
                    => /\ open = {}
                       /\ ingestor.websocket = itasks[t].sock

\* C25's case: a second reconnect has opened the third connection while the
\* other caller's reconnect, which opened the second, is over
C25_Witness ==
    /\ ingEvent.type = "return" /\ ingEvent.was
    /\ Len(upstream) = 3 /\ upstream[3].state = "open"
    /\ upstream[2].state = "closed"
    /\ ingestor.websocket = 3
    /\ \A t \in Callers : itasks[t].n >= 1

\* C26: bad frames are skipped.  The step that handles one frame either
\* publishes it on the channel of the frame's own symbol or skips it (decode,
\* normalisation or publish failed); in both cases the read loop is back at
\* its receive on the same connection and `running`, the connections and the
\* lock are as they were, so that the frames after a bad one are handled as
\* the frames after a good one.
C26_BadFramesSkipped ==
    [][itasks[RUN].pc = "publish" /\ itasks'[RUN].pc # "publish"
         => /\ itasks'[RUN] = [itasks[RUN] EXCEPT !.pc = "recv", !.frame = "-"]
            /\ ingestor'.running = ingestor.running
            /\ upstream' = upstream
            /\ ingEvent'.type \in {"publish", "skipped"}
            /\ ingEvent'.sym = itasks[RUN].frame
            /\ ingEvent'.type = "publish"
                  => ingEvent'.sym \in upstream[itasks[RUN].sock].streams
            /\ itasks[RUN].frame = "bad" => ingEvent'.type = "skipped"]_vars

\* C26's case: a bad frame was skipped and the loop is at its receive on the
\* connection, which is open, with the ingestor running and a frame to come
C26_Witness ==
    /\ ingEvent.type = "skipped" /\ ingEvent.sym = "bad"
    /\ itasks[RUN].pc = "recv" /\ ingestor.running
    /\ ingEvent.sock = itasks[RUN].sock
    /\ upstream[itasks[RUN].sock].state = "open"
    /\ itasks[RUN].n < MaxUpFrames

\* C27: the alert evaluator sees the ingestor's ticks.  The step in which
\* MultiSymbolIngestor publishes a tick, while the alert checker is subscribed
\* and polling, puts that tick in the checker's pubsub: it was published on a
\* channel the checker is subscribed to (and its last-seen price follows).
C27_AlertCheckerSeesTicks ==
    [][(/\ itasks[RUN].pc = "publish" /\ itasks'[RUN].pc = "recv"
        /\ ingEvent'.type = "publish"
        /\ alert_checker.pc = "poll")
          => /\ \E i \in 1..Len(PublishChannels(ingEvent'.sym)) :
                   PublishChannels(ingEvent'.sym)[i] \in alert_checker.subscribed
             /\ alert_checker'.queue # alert_checker.queue
             /\ alert_checker'.queue[Len(alert_checker'.queue)].symbol
                   = ingEvent'.sym]_vars

\* C28: the reader is gone when the call returns.  A step in which an
\* unsubscribe or disconnect deletes symbol s (its last subscriber left) and
\* returns (the manager lock is free again) leaves s without an entry in
\* redis_tasks and every reader task of s terminated.
C28_ReaderGoneOnReturn ==
    [][\A s \in Symbols :
          (/\ s \in DOMAIN symbol_subscribers
           /\ s \notin DOMAIN symbol_subscribers'
           /\ lockHolder' = NoTask)
             => /\ s \notin DOMAIN redis_tasks'
                /\ \A k \in 1..ReaderSlots : tasks'[R(s, k)].pc = "none"]_vars


\* C29: no deadlock on the manager lock.  The lock is only ever held by a task
\* suspended in a bus call of its manager operation (never by a task that
\* ended, was cancelled or waits for the lock itself); the tasks queued on the
\* lock are exactly the tasks suspended in Lock.acquire, each once (a cancelled
\* reader has left the queue); and whenever some task is inside connect,
\* subscribe, unsubscribe or disconnect a step of one of these calls can be
\* taken: the holder's bus call returns (StartDone, StopDone have a next
\* state), or the freed lock wakes the first of the queue (LockGranted has
\* one).  Every run being finite, every call returns.
C29_NoLockDeadlock ==
    /\ lockHolder # NoTask => tasks[lockHolder].pc \in {"start", "stop"}
    /\ \A t \in TaskIds : tasks[t].pc \in {"start", "stop"} => lockHolder = t
    /\ \A i \in 1..Len(lockWaiters) :
          /\ tasks[lockWaiters[i]].pc = "lock"
          /\ lockWaiters[i] # lockHolder
          /\ \A j \in 1..Len(lockWaiters) :
                lockWaiters[j] = lockWaiters[i] => j = i
    /\ \A t \in TaskIds :
          tasks[t].pc = "lock" => \E i \in 1..Len(lockWaiters) : lockWaiters[i] = t
    /\ \A t \in TaskIds :
          /\ tasks[t].pc = "start"
                => SubLoop([St EXCEPT !.tk[t].cur = "-"], t) # {}
          /\ tasks[t].pc = "stop"
                => DelChannel([St EXCEPT !.tk[t].cur = "-"], t, tasks[t].cur) # {}
          /\ (tasks[t].pc = "lock" /\ lockHolder = NoTask
              /\ Head(lockWaiters) = t)
                => Body([St EXCEPT !.lh = t, !.lw = Tail(@)], t) # {}

\* the reader of BTCUSDT runs the disconnect that removes the last subscriber
\* of its own symbol: it holds the lock, has cancelled itself and is suspended
\* in _stop_redis_subscription, while a handler waits for the lock
C29_Witness ==
    /\ lockHolder = R(BTC, 1)
    /\ tasks[R(BTC, 1)].pc = "stop" /\ tasks[R(BTC, 1)].cur = BTC
    /\ tasks[R(BTC, 1)].cancelled
    /\ \E c \in AllClients :
          /\ tasks[H(c)].pc = "lock"
          /\ \E i \in 1..Len(lockWaiters) : lockWaiters[i] = H(c)


\* C30: notification subscriptions follow connections.  Whenever a user has a
\* registered connection, subscribe_tasks has a subscribe task for that user,
\* whatever the interleaving of the connect and disconnect calls of that user.
C30_SubscriptionFollowsConnection ==
    \A u \in DOMAIN notif.user_connections :
        notif.user_connections[u] # {} => u \in DOMAIN notif.subscribe_tasks

=============================================================================
